---- MODULE Spec2Model ----
(***************************************************************************)
(* Model of the sol-tool `clean` command (src/src/commands/clean.rs):      *)
(* the token-account classifier, batch planning, transaction building,     *)
(* single-wallet local execution and the fleet (CSV) runner.               *)
(*                                                                         *)
(* TLC integers are 32-bit, so a u64 is held as two 32-bit words           *)
(* <<lo, hi>> (value = lo + hi * 2^32) and every input word keeps its top  *)
(* byte below 128.                                                         *)
(***************************************************************************)
EXTENDS Integers, Sequences, FiniteSets, TLC

VARIABLES
    pc,             \* position of the sequential driver (classifier / planner / run)
    accounts,       \* Vec<(Pubkey, Account)> handed to filter_closeable_accounts
    dust_lamports,  \* dust threshold, 0 = unset
    closeable,      \* Vec<(Pubkey, CloseableAccount)> returned by the filter
    panicked,       \* TRUE when the modelled code hit a panic (out-of-range read, chunks(0))
    batch_arg,      \* --batch as given on the command line
    batch_size,     \* batch_size as received by run()
    batches,        \* the planned batches
    txs,            \* the transactions built for the batches
    cfg,            \* run(): dry_run, json, connect and the keypair given
    conn,           \* connect_wallet(): its position, its calls so far and what it returned
    batch_i,        \* run(): index of the batch the loop is at (1-based)
    closed,         \* run(): accounts closed so far
    reclaimed,      \* run(): lamports reclaimed so far
    sigs,           \* run(): signatures of the confirmed batches
    lh,             \* run(): the blockhash fetched last
    inflight,       \* the transaction being sent and confirmed, or NoTx
    events,         \* every external call made so far, in order
    result,         \* how run() returned, "running" before that
    reported,       \* the totals printed at the end, or NoReport
    fleet,          \* run_batch(): dry_run, batch_size and what the RPC node may answer
    wallets,        \* run_batch(): the (pubkey, keypair) pairs loaded, with their chain accounts
    permits,        \* permits available in the semaphore
    tasks,          \* the spawned pipeline tasks, by position in `wallets`
    main_pc,        \* position of run_batch() itself
    awaited,        \* number of join handles awaited so far
    wallet_results, \* run_batch(): results collected from the handles
    printed,        \* per-wallet lines printed, in order
    totals,         \* total_closed and total_reclaimed of the summary
    overtook,       \* TRUE once a pipeline ended before one of a lower index
    file,           \* run_batch(): whether the wallet file opens, and its lines not yet read
    consumed,       \* the lines read from the file so far, in order
    line_num,       \* run_batch(): number of lines read so far
    warnings,       \* run_batch(): warnings printed while loading, in order
    load_error,     \* run_batch(): the error it returned with, "none" otherwise
    mon             \* monitor::run(): its position, the seen set and what it printed

filterVars == <<accounts, dust_lamports, closeable>>
planVars == <<batch_arg, batch_size, batches, txs>>
runVars == <<cfg, conn, batch_i, closed, reclaimed, sigs, lh, inflight, events, result, reported>>

loadVars == <<file, consumed, line_num, warnings, load_error>>

fleetVars == <<fleet, wallets, permits, tasks, main_pc, awaited, wallet_results,
               printed, totals, overtook, loadVars>>

vars == <<pc, panicked, filterVars, planVars, runVars, fleetVars, mon>>

NoTx == [instructions |-> <<>>]
NoReport == [status |-> "none"]
NoCfg == [dry_run |-> FALSE]
NoConn == [pc |-> "idle"]
NoMon == [pc |-> "idle"]

\* monitor::run() while another entry point is exercised.
MonIdle == mon = NoMon

\* The variables of run() while another entry point is exercised.
RunIdle ==
    /\ cfg = NoCfg /\ conn = NoConn /\ batch_i = 0 /\ closed = 0 /\ reclaimed = 0 /\ sigs = <<>>
    /\ lh = "none" /\ inflight = NoTx /\ events = <<>> /\ result = "running"
    /\ reported = NoReport

NoFleet == [dry_run |-> FALSE]
NoTotals == [total_closed |-> 0, total_reclaimed |-> 0]

\* The variables of run_batch() while another entry point is exercised.
FleetIdle ==
    /\ fleet = NoFleet /\ wallets = <<>> /\ permits = 0 /\ tasks = <<>>
    /\ main_pc = "idle" /\ awaited = 0 /\ wallet_results = <<>> /\ printed = <<>>
    /\ totals = NoTotals /\ overtook = FALSE
    /\ file = [openable |-> TRUE, lines |-> <<>>] /\ consumed = <<>> /\ line_num = 0
    /\ warnings = <<>> /\ load_error = "none"

(***************************************************************************)
(* Bytes and fixed-width decoding                                          *)
(***************************************************************************)

\* Size of an SPL token account buffer (the fetch filter and the test helper).
TokenAccountLen == 165

\* Byte k (0 = least significant) of a 32-bit word.
ByteOf(n, k) == (n \div (256 ^ k)) % 256

\* data[lo..hi] of Rust: the bytes at 0-based offsets lo .. hi-1.
\* The caller checks SliceOk first; an out-of-range slice is a panic.
SliceOk(data, lo, hi) == lo <= hi /\ hi <= Len(data)
Slice(data, lo, hi) == [k \in 1..(hi - lo) |-> data[lo + k]]

\* data[i] of Rust.
IndexOk(data, i) == i < Len(data)
Index(data, i) == data[i + 1]

\* slice.try_into().unwrap_or([0u8; n]): the slice when it has n bytes, else zeros.
TryIntoOrZero(s, n) == IF Len(s) = n THEN s ELSE [k \in 1..n |-> 0]

\* u32::from_le_bytes
u32_from_le_bytes(b) == b[1] + 256 * b[2] + 65536 * b[3] + 16777216 * b[4]

\* u64::from_le_bytes, as the two 32-bit words <<lo, hi>>
u64_from_le_bytes(b) ==
    << u32_from_le_bytes(SubSeq(b, 1, 4)), u32_from_le_bytes(SubSeq(b, 5, 8)) >>

U64(n) == <<n, 0>>
U64IsZero(a) == a[1] = 0 /\ a[2] = 0
U64Le(a, b) == a[2] < b[2] \/ (a[2] = b[2] /\ a[1] <= b[1])
U64Gt(a, b) == ~U64Le(a, b)

(***************************************************************************)
(* AccountClassifier: filter_closeable_accounts                            *)
(***************************************************************************)

\* An input element is <<addr, [lamports |-> u64, data |-> bytes]>>.
DataOf(e) == e[2].data

\* `if data.len() < 72 { continue; }`
TooShort_ReadsAt64(data) == Len(data) < 64
TooShort(data) == Len(data) < 72

\* The reads made right after the length check are in range.
HeadReadsOk(data) == SliceOk(data, 64, 72) /\ SliceOk(data, 0, 32)

amount_of(data) == u64_from_le_bytes(TryIntoOrZero(Slice(data, 64, 72), 8))
mint_of(data) == Slice(data, 0, 32)

is_empty(amount) == U64IsZero(amount)

is_dust_StrictBelow(amount, dust) ==
    ~U64IsZero(dust) /\ ~U64IsZero(amount) /\ U64Le(amount, dust) /\ amount # dust
is_dust(amount, dust) ==
    ~U64IsZero(dust) /\ ~U64IsZero(amount) /\ U64Le(amount, dust)

\* `data.len() > 76 && u32::from_le_bytes(data[72..76]...) == 1`
has_delegate(data) ==
    Len(data) > 76
    /\ u32_from_le_bytes(TryIntoOrZero(Slice(data, 72, 76), 4)) = 1

\* `data.len() > 108 && data[108] == 2`
is_frozen_InitializedByte(data) == Len(data) > 108 /\ Index(data, 108) = 1
is_frozen(data) == Len(data) > 108 /\ Index(data, 108) = 2

\* The length-gated reads of the delegate and state fields are in range.
TailReadsOk(data) ==
    /\ (Len(data) > 76 => SliceOk(data, 72, 76))
    /\ (Len(data) > 108 => IndexOk(data, 108))

\* The balance test of `if is_empty || is_dust`.
BalanceQualifies(data, dust) ==
    is_empty(amount_of(data)) \/ is_dust(amount_of(data), dust)

\* The account reaches `closeable.push(...)`.
Qualifies(data, dust) ==
    /\ ~TooShort(data)
    /\ BalanceQualifies(data, dust)
    /\ ~has_delegate(data)
    /\ ~is_frozen(data)

\* An indexing or slicing of this account's buffer is out of range.
ClassifyPanics(data, dust) ==
    /\ ~TooShort(data)
    /\ \/ ~HeadReadsOk(data)
       \/ (BalanceQualifies(data, dust) /\ ~TailReadsOk(data))

\* utils::token_amount(raw, decimals) = raw / 10^decimals, kept as the pair.
token_amount(raw, decimals) == <<raw, decimals>>

CloseableAccount(e) ==
    [ address       |-> e[1],
      mint          |-> mint_of(DataOf(e)),
      token_balance |-> token_amount(amount_of(DataOf(e)), 9),
      rent_lamports |-> e[2].lamports ]

\* closeable.push((addr, CloseableAccount {..}))
Push_Front(list, e) == <<e>> \o list
Push(list, e) == Append(list, e)

RECURSIVE filter_loop(_, _, _, _)
filter_loop(accs, dust, k, out) ==
    IF k > Len(accs) THEN [panicked |-> FALSE, closeable |-> out]
    ELSE IF ClassifyPanics(DataOf(accs[k]), dust)
         THEN [panicked |-> TRUE, closeable |-> out]
    ELSE IF Qualifies(DataOf(accs[k]), dust)
         THEN filter_loop(accs, dust, k + 1,
                          Push(out, <<accs[k][1], CloseableAccount(accs[k])>>))
    ELSE filter_loop(accs, dust, k + 1, out)

filter_closeable_accounts(accs, dust) == filter_loop(accs, dust, 1, <<>>)

(***************************************************************************)
(* Inputs of the classifier                                                *)
(***************************************************************************)

\* Rent-exempt deposit of a token account (the test helper's value).
RentExempt == 2039280

\* Most accounts in one classified list.
MaxAccounts == 4

\* A raw token-account buffer of `len` bytes laid out as create_token_account
\* does: amount at 64..72, delegate tag at 72..76, state at 108; every other
\* byte is `filler`.
MkData(len, amount, delegate, state, filler) ==
    [ i \in 1..len |->
        LET o == i - 1 IN
        IF o >= 64 /\ o < 68 THEN ByteOf(amount[1], o - 64)
        ELSE IF o >= 68 /\ o < 72 THEN ByteOf(amount[2], o - 68)
        ELSE IF o >= 72 /\ o < 76 THEN ByteOf(delegate, o - 72)
        ELSE IF o = 108 THEN state
        ELSE filler ]

Amounts == { <<0, 0>>, <<1, 0>>, <<2, 0>>, <<200, 0>>, <<201, 0>>, <<0, 1>> }
DelegateTags == { 0, 1, 2, 257 }
StateBytes == { 0, 1, 2 }
Fillers == { 0, 255 }
DustValues == { 0, 1, 200 }

\* One account of every length and field combination.
SingleInputs ==
    { << <<1, [lamports |-> RentExempt,
               data |-> MkData(len, a, d, s, f)]>> >> :
        len \in 0..TokenAccountLen, a \in Amounts, d \in DelegateTags,
        s \in StateBytes, f \in Fillers }

\* Full-size accounts the lists are drawn from: <<amount, delegate tag, state>>.
Kinds == { <<0, 0, 1>>, <<0, 0, 2>>, <<50, 1, 1>>, <<100, 0, 1>>, <<201, 0, 1>> }

KindLists == UNION { [1..n -> Kinds] : n \in 0..MaxAccounts }

\* The account at position i of a list has address i and lamports RentExempt + i.
ListOf(ks) ==
    [ i \in 1..Len(ks) |->
        <<i, [lamports |-> RentExempt + i,
              data |-> MkData(TokenAccountLen, U64(ks[i][1]), ks[i][2], ks[i][3], 0)]>> ]

ListInputs == { ListOf(ks) : ks \in KindLists }

InitFilter ==
    /\ pc = "filter_input"
    /\ accounts \in SingleInputs \cup ListInputs
    /\ dust_lamports \in DustValues
    /\ closeable = <<>>
    /\ panicked = FALSE
    /\ batch_arg = 0 /\ batch_size = 0 /\ batches = <<>> /\ txs = <<>>
    /\ RunIdle
    /\ FleetIdle
    /\ MonIdle

\* One call of filter_closeable_accounts(accounts, dust_lamports).
Filter ==
    /\ pc = "filter_input"
    /\ LET r == filter_closeable_accounts(accounts, U64(dust_lamports)) IN
        /\ closeable' = r.closeable
        /\ panicked' = r.panicked
    /\ pc' = "filter_done"
    /\ UNCHANGED <<accounts, dust_lamports>>
    /\ UNCHANGED <<planVars, runVars, fleetVars>>
    /\ UNCHANGED mon

NextFilter == Filter

SpecFilter == InitFilter /\ [][NextFilter]_vars

\* `closeable.iter().map(|c| c.1.rent_lamports).sum()`
RECURSIVE total_rent(_)
total_rent(list) ==
    IF list = <<>> THEN 0
    ELSE list[1][2].rent_lamports + total_rent(Tail(list))

(***************************************************************************)
(* Properties of the classifier (C1 - C4)                                  *)
(***************************************************************************)

\* The fields of a raw buffer as the account layout defines them.
LayoutAmount(data) ==
    << data[65] + 256 * data[66] + 65536 * data[67] + 16777216 * data[68],
       data[69] + 256 * data[70] + 65536 * data[71] + 16777216 * data[72] >>
LayoutDelegateTag(data) ==
    data[73] + 256 * data[74] + 65536 * data[75] + 16777216 * data[76]
LayoutState(data) == data[109]

FilterDone == pc = "filter_done"

\* Input account i appears in the output.
Emitted(i) == \E j \in 1..Len(closeable) : closeable[j][1] = accounts[i][1]

\* amount == 0 or (T > 0 and 0 < amount <= T), T = dust_lamports.
PolicyAdmits(amount) ==
    \/ amount = <<0, 0>>
    \/ dust_lamports > 0 /\ amount[2] = 0 /\ amount[1] > 0 /\ amount[1] <= dust_lamports

\* C1: an account buffer of at least 109 bytes whose delegate discriminant
\* (bytes 72..76) is 1 or whose state byte (offset 108) is 2 is never emitted,
\* whatever its amount and whatever the dust threshold.
C1_DelegatedOrFrozenNeverEmitted ==
    FilterDone =>
        \A i \in 1..Len(accounts) :
            LET data == DataOf(accounts[i]) IN
            (Len(data) >= 109
             /\ (LayoutDelegateTag(data) = 1 \/ LayoutState(data) = 2))
            => ~Emitted(i)

\* An empty frozen account and an empty delegated account were classified
\* under a dust threshold and nothing was emitted.
C1_Witness ==
    /\ FilterDone
    /\ Len(accounts) = 2
    /\ dust_lamports = 200
    /\ LayoutAmount(DataOf(accounts[1])) = <<0, 0>>
    /\ LayoutState(DataOf(accounts[1])) = 2
    /\ LayoutDelegateTag(DataOf(accounts[2])) = 1
    /\ closeable = <<>>

\* C2: an account buffer of at least 109 bytes with no delegate and not frozen
\* is emitted exactly when amount == 0 or (T > 0 and 0 < amount <= T).
C2_EmittedIffEmptyOrDust ==
    FilterDone =>
        \A i \in 1..Len(accounts) :
            LET data == DataOf(accounts[i]) IN
            (Len(data) >= 109
             /\ LayoutDelegateTag(data) # 1 /\ LayoutState(data) # 2)
            => (Emitted(i) <=> PolicyAdmits(LayoutAmount(data)))

\* An account whose amount equals the threshold was emitted.
C2_Witness ==
    /\ FilterDone
    /\ Len(accounts) = 1
    /\ Len(DataOf(accounts[1])) = 109
    /\ dust_lamports = 200
    /\ LayoutAmount(DataOf(accounts[1])) = <<200, 0>>
    /\ Emitted(1)

\* C3: classification of buffers of any length from 0 to 165 and any content
\* returns without an out-of-range read, and a buffer shorter than 72 bytes
\* is never emitted.
C3_TotalAndShortRejected ==
    /\ ~panicked
    /\ FilterDone =>
         \A i \in 1..Len(accounts) :
             Len(DataOf(accounts[i])) < 72 => ~Emitted(i)

\* A 71-byte buffer of zeros was classified under a dust threshold: no panic,
\* nothing emitted.
C3_Witness ==
    /\ FilterDone
    /\ ~panicked
    /\ Len(accounts) = 1
    /\ Len(DataOf(accounts[1])) = 71
    /\ \A k \in 1..71 : DataOf(accounts[1])[k] = 0
    /\ dust_lamports = 200
    /\ closeable = <<>>

\* Sum of the lamports of the input accounts from position i on that the
\* closure policy admits (full-size accounts).
RECURSIVE QualifyingLamports(_)
QualifyingLamports(i) ==
    IF i > Len(accounts) THEN 0
    ELSE LET data == DataOf(accounts[i]) IN
         (IF /\ Len(data) >= 109
             /\ LayoutDelegateTag(data) # 1
             /\ LayoutState(data) # 2
             /\ PolicyAdmits(LayoutAmount(data))
          THEN accounts[i][2].lamports ELSE 0)
         + QualifyingLamports(i + 1)

\* The list [A empty, B empty and frozen, C balance 50 with delegate,
\* D balance 100] of the scenario.
ScenarioInput ==
    /\ accounts = ListOf(<< <<0, 0, 1>>, <<0, 0, 2>>, <<50, 1, 1>>, <<100, 0, 1>> >>)
    /\ dust_lamports = 200

\* C4: the output is a sub-list of the input in the original relative order
\* with no account twice, each entry carries the input account's lamports as
\* rent_lamports, and the reclaimable total is the sum of the lamports of the
\* qualifying accounts; the scenario list gives [A, D].
C4_OrderedSublistWithRent ==
    FilterDone =>
        /\ \A j \in 1..Len(closeable) :
              /\ closeable[j][1] \in 1..Len(accounts)
              /\ closeable[j][2].address = closeable[j][1]
              /\ closeable[j][2].rent_lamports = accounts[closeable[j][1]][2].lamports
        /\ \A j \in 1..Len(closeable) : \A k \in 1..Len(closeable) :
              j < k => closeable[j][1] < closeable[k][1]
        /\ (\A i \in 1..Len(accounts) : Len(DataOf(accounts[i])) >= 109)
              => total_rent(closeable) = QualifyingLamports(1)
        /\ ScenarioInput =>
              /\ [j \in 1..Len(closeable) |-> closeable[j][1]] = <<1, 4>>
              /\ total_rent(closeable) = accounts[1][2].lamports + accounts[4][2].lamports

\* The scenario list was classified and gave [A, D].
C4_Witness ==
    /\ FilterDone
    /\ ScenarioInput
    /\ Len(closeable) = 2
    /\ closeable[1][1] = 1
    /\ closeable[2][1] = 4

(***************************************************************************)
(* BatchPlanner and the transactions built for a batch                     *)
(***************************************************************************)

\* `batch.clamp(1, 20)` in main
BatchMin == 1
BatchMax == 20
clamp(v, lo, hi) == IF v < lo THEN lo ELSE IF v > hi THEN hi ELSE v

Min(a, b) == IF a <= b THEN a ELSE b

\* slice::chunks(size): consecutive chunks of `size` elements, the last one
\* shorter when the length is not a multiple of size. chunks(0) panics.
RECURSIVE chunks_exact(_, _)
chunks_exact(list, size) ==
    IF Len(list) < size THEN <<>>
    ELSE <<SubSeq(list, 1, size)>> \o chunks_exact(SubSeq(list, size + 1, Len(list)), size)

RECURSIVE chunks(_, _)
chunks(list, size) ==
    IF list = <<>> THEN <<>>
    ELSE <<SubSeq(list, 1, Min(size, Len(list)))>>
         \o chunks(SubSeq(list, Min(size, Len(list)) + 1, Len(list)), size)

ChunksPanics(size) == size = 0

\* ComputeBudgetInstruction::set_compute_unit_limit(len as u32 * 3000 + 5000);
\* len <= 20, far from the u32 range.
UnitsPerClose == 3000
UnitsBase == 5000
cu_limit(len) == len * UnitsPerClose + UnitsBase

set_compute_unit_limit(units) ==
    [program |-> "ComputeBudget", kind |-> "SetComputeUnitLimit", units |-> units]

\* ComputeBudgetInstruction::set_compute_unit_price(1000)
UnitPrice == 1000
set_compute_unit_price(micro) ==
    [program |-> "ComputeBudget", kind |-> "SetComputeUnitPrice", micro_lamports |-> micro]

\* spl_token::instruction::close_account(program, account, destination, owner, &[]):
\* Err when `program` is not the token program, else the instruction.
SplTokenId == "spl_token"
close_account(program, account, destination, owner) ==
    [ ok |-> program = SplTokenId,
      ix |-> [program |-> program, kind |-> "CloseAccount", account |-> account,
              destination |-> destination, owner |-> owner] ]

\* Addresses of a batch, in order.
Addrs(batch) == [k \in 1..Len(batch) |-> batch[k][1]]

\* `for (addr, _) in batch { ixs.push(close_account(..)?) }`: the pushes made,
\* and whether one of them returned Err (the `?` leaves run()).
RECURSIVE push_closes(_, _, _)
push_closes(ixs, addrs, w) ==
    IF addrs = <<>> THEN [err |-> FALSE, ixs |-> ixs]
    ELSE LET r == close_account(SplTokenId, addrs[1], w, w) IN
         IF r.ok THEN push_closes(Append(ixs, r.ix), Tail(addrs), w)
         ELSE [err |-> TRUE, ixs |-> ixs]

\* `if let Ok(ix) = close_account(..) { ixs.push(ix) }` of the fleet pipeline.
RECURSIVE push_closes_if_ok(_, _, _)
push_closes_if_ok(ixs, addrs, w) ==
    IF addrs = <<>> THEN ixs
    ELSE LET r == close_account(SplTokenId, addrs[1], w, w) IN
         push_closes_if_ok(IF r.ok THEN Append(ixs, r.ix) ELSE ixs, Tail(addrs), w)

budget_ixs(len) ==
    << set_compute_unit_limit(cu_limit(len)), set_compute_unit_price(UnitPrice) >>

\* Relay path: the instruction list of one batch.
relay_ixs(batch, w) == push_closes(budget_ixs(Len(batch)), Addrs(batch), w)

\* Single-wallet local path.
local_ixs_PriceFirst(batch, w) ==
    push_closes(<< set_compute_unit_price(UnitPrice),
                   set_compute_unit_limit(cu_limit(Len(batch))) >>, Addrs(batch), w)
local_ixs(batch, w) == push_closes(budget_ixs(Len(batch)), Addrs(batch), w)

\* Fleet path.
fleet_ixs(batch, w) == push_closes_if_ok(budget_ixs(Len(batch)), Addrs(batch), w)

\* Transaction::new_with_payer(&ixs, Some(&wallet)); tx.message.recent_blockhash = hash
unsigned_tx_Signed(ixs, payer, hash) ==
    [instructions |-> ixs, payer |-> payer, recent_blockhash |-> hash, signers |-> {payer}]

unsigned_tx(ixs, payer, hash) ==
    [instructions |-> ixs, payer |-> payer, recent_blockhash |-> hash, signers |-> {}]

\* Transaction::new_signed_with_payer(&ixs, Some(&wallet), &[&keypair], hash)
signed_tx(ixs, payer, signer, hash) ==
    [instructions |-> ixs, payer |-> payer, recent_blockhash |-> hash, signers |-> {signer}]

(***************************************************************************)
(* Planning and building, applied to every list and batch argument         *)
(***************************************************************************)

\* Most closeable accounts handed to the planner.
MaxPlanAccounts == 25
\* Largest --batch argument tried.
MaxBatchArg == 22

PlanWallet == "W"
PlanHash == "H"

\* n empty token accounts of the wallet, classified.
EmptyAccounts(n) ==
    filter_closeable_accounts(ListOf([i \in 1..n |-> <<0, 0, 1>>]), U64(0)).closeable

InitPlan ==
    /\ pc = "plan_input"
    /\ accounts = <<>>
    /\ dust_lamports = 0
    /\ \E n \in 1..MaxPlanAccounts : closeable = EmptyAccounts(n)
    /\ panicked = FALSE
    /\ batch_arg \in 0..MaxBatchArg
    /\ batch_size = 0
    /\ batches = <<>>
    /\ txs = <<>>
    /\ RunIdle
    /\ FleetIdle
    /\ MonIdle

\* main: run(.., batch.clamp(1, 20), ..)
ClampArg ==
    /\ pc = "plan_input"
    /\ batch_size' = clamp(batch_arg, BatchMin, BatchMax)
    /\ pc' = "plan_clamped"
    /\ UNCHANGED <<filterVars, panicked, batch_arg, batches, txs, runVars, fleetVars>>
    /\ UNCHANGED mon

\* closeable.chunks(batch_size).map(|c| c.iter().collect()).collect()
Plan ==
    /\ pc = "plan_clamped"
    /\ IF ChunksPanics(batch_size)
       THEN panicked' = TRUE /\ pc' = "plan_panic" /\ UNCHANGED batches
       ELSE /\ batches' = chunks(closeable, batch_size)
            /\ pc' = "planned"
            /\ UNCHANGED panicked
    /\ UNCHANGED <<filterVars, batch_arg, batch_size, txs, runVars, fleetVars>>
    /\ UNCHANGED mon

\* The relay path's transaction of every batch.
BuildRelay ==
    /\ pc = "planned"
    /\ txs' = [k \in 1..Len(batches) |->
                 unsigned_tx(relay_ixs(batches[k], PlanWallet).ixs, PlanWallet, PlanHash)]
    /\ pc' = "built_relay"
    /\ UNCHANGED <<filterVars, panicked, batch_arg, batch_size, batches, runVars, fleetVars>>
    /\ UNCHANGED mon

\* The single-wallet local path's transaction of every batch.
BuildLocal ==
    /\ pc = "planned"
    /\ txs' = [k \in 1..Len(batches) |->
                 signed_tx(local_ixs(batches[k], PlanWallet).ixs,
                           PlanWallet, PlanWallet, PlanHash)]
    /\ pc' = "built_local"
    /\ UNCHANGED <<filterVars, panicked, batch_arg, batch_size, batches, runVars, fleetVars>>
    /\ UNCHANGED mon

\* The fleet path's transaction of every batch.
BuildFleet ==
    /\ pc = "planned"
    /\ txs' = [k \in 1..Len(batches) |->
                 signed_tx(fleet_ixs(batches[k], PlanWallet),
                           PlanWallet, PlanWallet, PlanHash)]
    /\ pc' = "built_fleet"
    /\ UNCHANGED <<filterVars, panicked, batch_arg, batch_size, batches, runVars, fleetVars>>
    /\ UNCHANGED mon

NextPlan == ClampArg \/ Plan \/ BuildRelay \/ BuildLocal \/ BuildFleet

SpecPlan == InitPlan /\ [][NextPlan]_vars

(***************************************************************************)
(* Properties of planning and building (C5, C6)                            *)
(***************************************************************************)

RECURSIVE Concat(_)
Concat(ss) == IF ss = <<>> THEN <<>> ELSE ss[1] \o Concat(Tail(ss))

Planned == pc \in {"planned", "built_relay", "built_local", "built_fleet"}

\* C5: with the batch argument clamped into [1,20], the batches are
\* consecutive pieces of the input whose concatenation is the input; every
\* batch but the last has exactly B accounts and the last has 1..B; 25
\* accounts with B = 10 give sizes 10, 10, 5.
C5_FaithfulPartition ==
    /\ ~panicked
    /\ pc # "plan_input" =>
         /\ batch_size \in 1..20
         /\ batch_arg \in 1..20 => batch_size = batch_arg
         /\ batch_arg < 1 => batch_size = 1
         /\ batch_arg > 20 => batch_size = 20
    /\ Planned =>
         /\ Concat(batches) = closeable
         /\ \A k \in 1..Len(batches) :
               /\ k < Len(batches) => Len(batches[k]) = batch_size
               /\ Len(batches[k]) \in 1..batch_size
         /\ (Len(closeable) = 25 /\ batch_size = 10)
               => [k \in 1..Len(batches) |-> Len(batches[k])] = <<10, 10, 5>>

\* 25 accounts were planned with batch size 10 into three batches.
C5_Witness ==
    /\ pc = "planned"
    /\ Len(closeable) = 25
    /\ batch_arg = 10
    /\ Len(batches) = 3
    /\ Len(batches[3]) = 5

Built == pc \in {"built_relay", "built_local", "built_fleet"}

\* C6: on the relay, local and fleet paths the transaction of a batch of N
\* accounts has N+2 instructions: set-compute-unit-limit(3000*N + 5000),
\* set-compute-unit-price(1000), then one close per account in batch order
\* with the wallet as authority and destination.
C6_BudgetThenCloses ==
    Built =>
        /\ Len(txs) = Len(batches)
        /\ \A k \in 1..Len(txs) :
              LET ixs == txs[k].instructions
                  N == Len(batches[k]) IN
              /\ Len(ixs) = N + 2
              /\ ixs[1].kind = "SetComputeUnitLimit"
              /\ ixs[1].units = 3000 * N + 5000
              /\ ixs[2].kind = "SetComputeUnitPrice"
              /\ ixs[2].micro_lamports = 1000
              /\ \A j \in 1..N :
                    /\ ixs[j + 2].kind = "CloseAccount"
                    /\ ixs[j + 2].account = batches[k][j][1]
                    /\ ixs[j + 2].owner = PlanWallet
                    /\ ixs[j + 2].destination = PlanWallet

\* A full batch of 20 was built on the local path with limit 65000.
C6_Witness ==
    /\ pc = "built_local"
    /\ Len(batches) = 2
    /\ Len(batches[1]) = 20
    /\ Len(txs[1].instructions) = 22
    /\ txs[1].instructions[1].units = 65000
    /\ Len(txs[2].instructions) = 3

(***************************************************************************)
(* run(): the single-wallet flow, from the account fetch on                *)
(***************************************************************************)

\* Most token accounts the wallet owns on chain.
MaxRunAccounts == 3

RunWallet == "W"

\* Token accounts of the wallet: empty, empty and frozen, balance 100.
RunKinds == { <<0, 0, 1>>, <<0, 0, 2>>, <<100, 0, 1>> }
RunChains == { ListOf(ks) : ks \in UNION { [1..n -> RunKinds] : n \in 0..MaxRunAccounts } }

\* --batch arguments tried by the run.
RunBatchArgs == { 0, 1, 2 }

\* The keypair given: public key of the wallet, of another wallet, or unreadable.
Keypairs == { "W", "X", "unreadable" }

Cfgs == [ dry_run : BOOLEAN, json : BOOLEAN, connect : BOOLEAN, keypair : Keypairs ]

Ev(op) == [op |-> op]

InitRun ==
    /\ pc = "run_fetch"
    /\ accounts \in RunChains
    /\ dust_lamports \in { 0, 200 }
    /\ closeable = <<>>
    /\ panicked = FALSE
    /\ batch_arg \in RunBatchArgs
    /\ batch_size = clamp(batch_arg, BatchMin, BatchMax)
    /\ batches = <<>>
    /\ txs = <<>>
    /\ cfg \in Cfgs
    /\ conn = NoConn
    /\ batch_i = 0 /\ closed = 0 /\ reclaimed = 0 /\ sigs = <<>>
    /\ lh = "none" /\ inflight = NoTx /\ events = <<>> /\ result = "running"
    /\ reported = NoReport
    /\ FleetIdle
    /\ MonIdle

\* run() returns `res` without executing anything further.
Return(res) == pc' = "run_done" /\ result' = res

\* Where run() goes once closeable accounts were found and printed.
AfterFound_IgnoresDryRun ==
    IF cfg.connect THEN (IF cfg.json THEN "relay_blockhash" ELSE "relay_confirm")
    ELSE "keypair_load"

AfterFound_SkipsPrompt ==
    IF cfg.dry_run THEN "run_done"
    ELSE IF cfg.connect THEN "relay_blockhash"
    ELSE "keypair_load"

AfterFound ==
    IF cfg.dry_run THEN "run_done"
    ELSE IF cfg.connect THEN (IF cfg.json THEN "relay_blockhash" ELSE "relay_confirm")
    ELSE "keypair_load"

\* fetch_and_analyze(..).await?, the clean / found reports and the dry-run return.
RunFetch ==
    /\ pc = "run_fetch"
    /\ \E rpc \in {"ok", "err"} :
        IF rpc = "err"
        THEN /\ events' = Append(events, Ev("get_program_accounts"))
             /\ Return("err_fetch")
             /\ UNCHANGED <<closeable, reported>>
        ELSE LET found == filter_closeable_accounts(accounts, U64(dust_lamports)).closeable IN
             /\ closeable' = found
             /\ IF found = <<>>
                THEN /\ events' = Append(events, Ev("get_program_accounts"))
                     /\ Return("ok_clean")
                     /\ reported' = [status |-> "clean", closeable |-> 0]
                ELSE /\ events' = events \o <<Ev("get_program_accounts"), Ev("sol_price")>>
                     /\ pc' = AfterFound
                     /\ result' = IF cfg.dry_run THEN "ok_dry_run" ELSE "running"
                     /\ reported' = [status |-> "found", closeable |-> Len(found),
                                     reclaimable |-> total_rent(found)]
    /\ UNCHANGED <<fleetVars, accounts, dust_lamports, panicked, planVars,
                   cfg, conn, batch_i, closed, reclaimed, sigs, lh, inflight>>
    /\ UNCHANGED mon

\* Confirm::new()...interact()? of the relay path.
RelayConfirm ==
    /\ pc = "relay_confirm"
    /\ \E answer \in {"yes", "no", "err"} :
        /\ events' = Append(events, [op |-> "confirm", answer |-> answer])
        /\ CASE answer = "yes" -> pc' = "relay_blockhash" /\ UNCHANGED result
             [] answer = "no"  -> Return("ok_cancelled")
             [] answer = "err" -> Return("err_prompt")
    /\ UNCHANGED <<fleetVars, filterVars, panicked, planVars,
                   cfg, conn, batch_i, closed, reclaimed, sigs, lh, inflight, reported>>
    /\ UNCHANGED mon

\* client.get_latest_blockhash()? and the loop building every batch's
\* unsigned transaction with that hash.
RelayBlockhash ==
    /\ pc = "relay_blockhash"
    /\ \E rpc \in {"ok", "err"} :
        /\ events' = Append(events, [op |-> "get_latest_blockhash", ok |-> rpc = "ok"])
        /\ IF rpc = "err"
           THEN Return("err_blockhash") /\ UNCHANGED <<lh, batches, txs>>
           ELSE LET h == Len(events) + 1
                    bs == chunks(closeable, batch_size) IN
                /\ lh' = h
                /\ batches' = bs
                /\ txs' = [k \in 1..Len(bs) |->
                             unsigned_tx(relay_ixs(bs[k], RunWallet).ixs, RunWallet, h)]
                /\ pc' = "relay_upload"
                /\ UNCHANGED result
    /\ UNCHANGED <<fleetVars, filterVars, panicked, batch_arg, batch_size,
                   cfg, conn, batch_i, closed, reclaimed, sigs, inflight, reported>>
    /\ UNCHANGED mon

\* solanapay::upload_transactions(..).await? and display_qr(..)?
RelayUpload ==
    /\ pc = "relay_upload"
    /\ \E http \in {"ok", "err"} :
        /\ events' = Append(events, [op |-> "upload", txs |-> txs, ok |-> http = "ok"])
        /\ IF http = "err" THEN Return("err_upload") ELSE Return("ok_uploaded")
    /\ UNCHANGED <<fleetVars, filterVars, panicked, planVars,
                   cfg, conn, batch_i, closed, reclaimed, sigs, lh, inflight, reported>>
    /\ UNCHANGED mon

\* utils::verify_keypair(&keypair, &wallet)
verify_keypair(keypair, wallet) == keypair = wallet

\* Reading the keypair and verify_keypair(..)?
KeypairLoad ==
    /\ pc = "keypair_load"
    /\ IF cfg.keypair = "unreadable" THEN Return("err_keypair")
       ELSE IF ~verify_keypair(cfg.keypair, RunWallet) THEN Return("err_keypair_mismatch")
       ELSE IF cfg.json THEN pc' = "local_plan" /\ UNCHANGED result
       ELSE pc' = "local_confirm" /\ UNCHANGED result
    /\ UNCHANGED <<fleetVars, filterVars, panicked, planVars,
                   cfg, conn, batch_i, closed, reclaimed, sigs, lh, inflight, events, reported>>
    /\ UNCHANGED mon

\* Confirm::new()...interact()? of the keypair path.
LocalConfirm ==
    /\ pc = "local_confirm"
    /\ \E answer \in {"yes", "no", "err"} :
        /\ events' = Append(events, [op |-> "confirm", answer |-> answer])
        /\ CASE answer = "yes" -> pc' = "local_plan" /\ UNCHANGED result
             [] answer = "no"  -> Return("ok_cancelled")
             [] answer = "err" -> Return("err_prompt")
    /\ UNCHANGED <<fleetVars, filterVars, panicked, planVars,
                   cfg, conn, batch_i, closed, reclaimed, sigs, lh, inflight, reported>>
    /\ UNCHANGED mon

\* `let batches = closeable.chunks(batch_size)...` and the loop's counters.
LocalPlan ==
    /\ pc = "local_plan"
    /\ batches' = chunks(closeable, batch_size)
    /\ batch_i' = 1
    /\ closed' = 0 /\ reclaimed' = 0 /\ sigs' = <<>>
    /\ pc' = "local_blockhash"
    /\ UNCHANGED <<fleetVars, filterVars, panicked, batch_arg, batch_size, txs,
                   cfg, conn, lh, inflight, events, result, reported>>
    /\ UNCHANGED mon

\* Loop body up to `let lh = client.get_latest_blockhash()?`.
LocalBlockhash ==
    /\ pc = "local_blockhash"
    /\ \E rpc \in {"ok", "err"} :
        /\ events' = Append(events, [op |-> "get_latest_blockhash", ok |-> rpc = "ok"])
        /\ IF rpc = "err"
           THEN Return("err_blockhash") /\ UNCHANGED lh
           ELSE lh' = Len(events) + 1 /\ pc' = "local_send" /\ UNCHANGED result
    /\ UNCHANGED <<fleetVars, filterVars, panicked, planVars,
                   cfg, conn, batch_i, closed, reclaimed, sigs, inflight, reported>>
    /\ UNCHANGED mon

\* Transaction::new_signed_with_payer(..) and the call of
\* client.send_and_confirm_transaction(&tx).
LocalSubmit ==
    /\ pc = "local_send"
    /\ LET tx == signed_tx(local_ixs(batches[batch_i], RunWallet).ixs,
                           RunWallet, cfg.keypair, lh) IN
        /\ inflight' = tx
        /\ events' = Append(events, [op |-> "submit", batch |-> batch_i, tx |-> tx])
    /\ pc' = "local_wait"
    /\ UNCHANGED <<fleetVars, filterVars, panicked, planVars,
                   cfg, conn, batch_i, closed, reclaimed, sigs, lh, result, reported>>
    /\ UNCHANGED mon

\* The signature send_and_confirm_transaction returns for a transaction.
signature_of(tx) == <<"sig", tx.payer, tx.recent_blockhash>>

\* The match on the send result: Ok(sig) adds the batch to the totals, Err
\* leaves them as they are.
totals_CountFailed(tot, batch, ok, sig) ==
    [ closed    |-> tot.closed + Len(batch),
      reclaimed |-> tot.reclaimed + total_rent(batch),
      sigs      |-> IF ok THEN Append(tot.sigs, sig) ELSE tot.sigs ]
totals_after(tot, batch, ok, sig) ==
    IF ok
    THEN [ closed    |-> tot.closed + Len(batch),
           reclaimed |-> tot.reclaimed + total_rent(batch),
           sigs      |-> Append(tot.sigs, sig) ]
    ELSE tot

\* The for loop after a batch: the next batch, or the code after the loop.
loop_next(k, n, ok) == IF k < n THEN "local_blockhash" ELSE "run_done"

\* send_and_confirm_transaction returns; the match arms; the end of the loop
\* body; after the last batch the final report and Ok(()).
LocalConfirmed ==
    /\ pc = "local_wait"
    /\ \E ok \in BOOLEAN :
        LET tot == totals_after([closed |-> closed, reclaimed |-> reclaimed, sigs |-> sigs],
                                batches[batch_i], ok, signature_of(inflight))
            next == loop_next(batch_i, Len(batches), ok) IN
        /\ events' = Append(events, [op |-> "confirmed", batch |-> batch_i, ok |-> ok])
        /\ closed' = tot.closed
        /\ reclaimed' = tot.reclaimed
        /\ sigs' = tot.sigs
        /\ inflight' = NoTx
        /\ batch_i' = batch_i + 1
        /\ pc' = next
        /\ IF next = "run_done"
           THEN /\ result' = "ok_done"
                /\ reported' = [status |-> "done", closed |-> tot.closed,
                                reclaimed |-> tot.reclaimed, signatures |-> tot.sigs]
           ELSE UNCHANGED <<result, reported>>
    /\ UNCHANGED <<fleetVars, filterVars, panicked, planVars, cfg, conn, lh>>
    /\ UNCHANGED mon

NextRun ==
    \/ RunFetch
    \/ RelayConfirm \/ RelayBlockhash \/ RelayUpload
    \/ KeypairLoad \/ LocalConfirm \/ LocalPlan
    \/ LocalBlockhash \/ LocalSubmit \/ LocalConfirmed

SpecRun == InitRun /\ [][NextRun]_vars

(***************************************************************************)
(* Properties of single-wallet local execution (C7, C8)                    *)
(***************************************************************************)

IsSubmit(e) == e.op = "submit"
IsConfirmed(e) == e.op = "confirmed"
IsSend(e) == e.op \in {"submit", "confirmed"}

Submits == SelectSeq(events, IsSubmit)
Confirms == SelectSeq(events, IsConfirmed)
Sends == SelectSeq(events, IsSend)

\* The keypair path got as far as planning its batches.
LocalStarted == batch_i >= 1

\* C7: batches are submitted one at a time in planning order, batch k+1 only
\* after the submission of batch k returned, and whatever the outcomes a run
\* that has begun its batches and ended has submitted every batch exactly
\* once.
C7_EveryBatchSubmittedOnce ==
    /\ \A j \in 1..Len(Submits) : Submits[j].batch = j
    /\ \A j \in 1..Len(Confirms) : Confirms[j].batch = j
    /\ \A j \in 1..Len(Sends) :
          Sends[j].op = (IF j % 2 = 1 THEN "submit" ELSE "confirmed")
    /\ Len(Submits) <= Len(batches)
    /\ pc = "local_wait" <=> Len(Submits) = Len(Confirms) + 1
    /\ (LocalStarted /\ pc # "local_wait") => Len(Submits) = Len(Confirms)
    /\ (LocalStarted /\ pc = "run_done") =>
          /\ Len(Submits) = Len(batches)
          /\ Len(Confirms) = Len(batches)

\* Batch numbers of the submissions that succeeded, in order.
Succeeded == SelectSeq(Confirms, LAMBDA e : e.ok)

\* Lamports held on chain by the accounts of a batch.
RECURSIVE ChainLamports(_)
ChainLamports(batch) ==
    IF batch = <<>> THEN 0
    ELSE accounts[batch[1][1]][2].lamports + ChainLamports(Tail(batch))

\* Accounts, and their lamports, in the batches of a list of confirmations.
RECURSIVE AccountsIn(_)
AccountsIn(confs) ==
    IF confs = <<>> THEN 0
    ELSE Len(batches[confs[1].batch]) + AccountsIn(Tail(confs))

RECURSIVE LamportsIn(_)
LamportsIn(confs) ==
    IF confs = <<>> THEN 0
    ELSE ChainLamports(batches[confs[1].batch]) + LamportsIn(Tail(confs))

\* C8: closed is the number of accounts in the batches whose submission
\* succeeded, reclaimed the lamports of those accounts, signatures one per
\* succeeded batch in batch order; a failed batch changes none of them.
C8_TotalsFromSucceededBatches ==
    LocalStarted =>
        /\ closed = AccountsIn(Succeeded)
        /\ reclaimed = LamportsIn(Succeeded)
        /\ sigs = [j \in 1..Len(Succeeded) |->
                     <<"sig", RunWallet, Submits[Succeeded[j].batch].tx.recent_blockhash>>]
        /\ result = "ok_done" =>
              reported = [status |-> "done", closed |-> closed,
                          reclaimed |-> reclaimed, signatures |-> sigs]

\* Of three batches the second was rejected: two accounts and two signatures
\* are counted.
C8_Witness ==
    /\ result = "ok_done"
    /\ Len(batches) = 3
    /\ Confirms[1].ok /\ ~Confirms[2].ok /\ Confirms[3].ok
    /\ closed = 2
    /\ Len(sigs) = 2
    /\ reclaimed = accounts[1][2].lamports + accounts[3][2].lamports

(***************************************************************************)
(* run_batch(): the fleet runner, from the loaded wallet list on           *)
(***************************************************************************)

\* tokio::sync::Semaphore::new(10)
FleetPermits == 10

\* sem.acquire().await: completes only when a permit is available.
sem_can_acquire_OffByOne(p) == p >= 0
sem_can_acquire_Starved(p) == p > FleetPermits
sem_can_acquire(p) == p > 0

NoOut == <<>>

\* A pipeline task as tokio::spawn creates it: about to ask for its permit.
NoWork == <<>>
\* `rpc` holds the answers to the RPC calls the task has made, in order: the
\* account fetch, the blockhash fetch, then one send per chunk.
NewTask == [ pc |-> "acquire", rpc |-> <<>>, work |-> NoWork, out |-> NoOut ]

Ended(t) == t.pc \in {"done", "panicked"}
HoldsPermit(t) == t.pc \in {"fetch", "blockhash", "send"}

\* `for (idx, (wallet, keypair)) in wallets.into_iter().enumerate()`:
\* one tokio::spawn per iteration; after the last one run_batch() goes on to
\* await the handles.
Spawn ==
    /\ main_pc = "spawning"
    /\ tasks' = Append(tasks, NewTask)
    /\ main_pc' = IF Len(tasks) + 1 = Len(wallets) THEN "collecting" ELSE "spawning"
    /\ UNCHANGED <<pc, panicked, filterVars, planVars, runVars,
                   loadVars, fleet, wallets, permits, awaited, wallet_results, printed, totals,
                   overtook>>
    /\ UNCHANGED mon

\* `let _permit = sem.acquire().await.unwrap();`
Acquire(i) ==
    /\ tasks[i].pc = "acquire"
    /\ sem_can_acquire(permits)
    /\ permits' = permits - 1
    /\ tasks' = [tasks EXCEPT ![i].pc = "fetch"]
    /\ UNCHANGED <<pc, panicked, filterVars, planVars, runVars,
                   loadVars, fleet, wallets, main_pc, awaited, wallet_results, printed, totals,
                   overtook>>
    /\ UNCHANGED mon

\* The task of wallet i ends in state `t` (returned or panicked): _permit is
\* dropped.
TaskEnds_LeakOnPanic(i, t) ==
    /\ tasks' = [tasks EXCEPT ![i] = t]
    /\ permits' = IF t.pc = "panicked" THEN permits ELSE permits + 1
    /\ overtook' = (overtook \/ \E j \in 1..(i - 1) : ~Ended(tasks[j]))

TaskEnds(i, t) ==
    /\ tasks' = [tasks EXCEPT ![i] = t]
    /\ permits' = permits + 1
    /\ overtook' = (overtook \/ \E j \in 1..(i - 1) : ~Ended(tasks[j]))

\* The task keeps running in state `t`.
TaskGoesOn(i, t) ==
    /\ tasks' = [tasks EXCEPT ![i] = t]
    /\ UNCHANGED <<permits, overtook>>

Returned_MarkedOk(t, out) == [t EXCEPT !.pc = "done", !.out = [out EXCEPT ![5] = TRUE]]
Returned(t, out) == [t EXCEPT !.pc = "done", !.out = out]
Panicked(t) == [t EXCEPT !.pc = "panicked"]

\* get_program_accounts_with_config, filter_closeable_accounts, and the
\* returns for a failed fetch, no candidates and dry_run.
FleetFetch(i) ==
    /\ tasks[i].pc = "fetch"
    /\ \E rpc \in fleet.rpc :
        LET t == [tasks[i] EXCEPT !.rpc = Append(@, rpc)]
            idx == i - 1
            w == wallets[i].pubkey
            candidates == filter_closeable_accounts(wallets[i].chain,
                                                    U64(fleet.dust)).closeable IN
        CASE rpc = "panic" -> TaskEnds(i, Panicked(t))
          [] rpc = "err" -> TaskEnds(i, Returned(t, <<idx, w, 0, 0, FALSE>>))
          [] rpc = "ok" ->
               IF candidates = <<>>
               THEN TaskEnds(i, Returned(t, <<idx, w, 0, 0, TRUE>>))
               ELSE IF fleet.dry_run
               THEN TaskEnds(i, Returned(t, <<idx, w, Len(candidates),
                                              total_rent(candidates), TRUE>>))
               ELSE TaskGoesOn(i, [t EXCEPT !.pc = "blockhash",
                                            !.work = [closeable |-> candidates]])
    /\ UNCHANGED <<pc, panicked, filterVars, planVars, runVars,
                   loadVars, fleet, wallets, main_pc, awaited, wallet_results, printed, totals>>
    /\ UNCHANGED mon

\* `let recent_hash = match client.get_latest_blockhash() {..}` and the
\* loop's counters.
FleetBlockhash(i) ==
    /\ tasks[i].pc = "blockhash"
    /\ \E rpc \in fleet.rpc :
        LET t == [tasks[i] EXCEPT !.rpc = Append(@, rpc)]
            idx == i - 1
            w == wallets[i].pubkey IN
        CASE rpc = "panic" -> TaskEnds(i, Panicked(t))
          [] rpc = "err" ->
               TaskEnds(i, Returned(t, <<idx, w, Len(t.work.closeable), 0, FALSE>>))
          [] rpc = "ok" ->
               TaskGoesOn(i, [t EXCEPT !.pc = "send",
                                       !.work = [closeable |-> t.work.closeable,
                                                 recent_hash |-> Len(t.rpc), chunk_i |-> 1,
                                                 closed |-> 0, reclaimed |-> 0,
                                                 sent |-> <<>>]])
    /\ UNCHANGED <<pc, panicked, filterVars, planVars, runVars,
                   loadVars, fleet, wallets, main_pc, awaited, wallet_results, printed, totals>>
    /\ UNCHANGED mon

\* One iteration of `for chunk in closeable.chunks(batch_size)`: build, sign,
\* send_and_confirm_transaction, count on Ok; after the last chunk the task
\* returns its totals.
FleetSend(i) ==
    /\ tasks[i].pc = "send"
    /\ \E rpc \in fleet.rpc :
        LET t0 == tasks[i]
            idx == i - 1
            w == wallets[i].pubkey
            cs == chunks(t0.work.closeable, fleet.batch_size)
            chunk == cs[t0.work.chunk_i]
            tx == signed_tx(fleet_ixs(chunk, w), w, wallets[i].keypair,
                            t0.work.recent_hash)
            ok == rpc = "ok"
            t == [t0 EXCEPT !.rpc = Append(@, rpc),
                            !.work.sent = Append(@, [chunk |-> t0.work.chunk_i,
                                                     tx |-> tx, ok |-> ok]),
                            !.work.closed = IF ok THEN @ + Len(chunk) ELSE @,
                            !.work.reclaimed = IF ok THEN @ + total_rent(chunk) ELSE @,
                            !.work.chunk_i = @ + 1] IN
        IF rpc = "panic" THEN TaskEnds(i, Panicked(t))
        ELSE IF t0.work.chunk_i = Len(cs)
        THEN TaskEnds(i, Returned(t, <<idx, w, t.work.closed, t.work.reclaimed, TRUE>>))
        ELSE TaskGoesOn(i, t)
    /\ UNCHANGED <<pc, panicked, filterVars, planVars, runVars,
                   loadVars, fleet, wallets, main_pc, awaited, wallet_results, printed, totals>>
    /\ UNCHANGED mon

\* Stable insertion of r into a list sorted by field f.
RECURSIVE insert_by(_, _, _)
insert_by(sorted, r, f) ==
    IF sorted = <<>> THEN <<r>>
    ELSE IF r[f] < sorted[1][f] THEN <<r>> \o sorted
    ELSE <<sorted[1]>> \o insert_by(Tail(sorted), r, f)

RECURSIVE sort_by_field(_, _)
sort_by_field(rs, f) ==
    IF rs = <<>> THEN <<>>
    ELSE insert_by(sort_by_field(SubSeq(rs, 1, Len(rs) - 1), f), rs[Len(rs)], f)

\* wallet_results.sort_by_key(|(idx, _, _, _, _)| *idx)
sort_results_ByClosed(rs) == sort_by_field(rs, 3)
sort_results(rs) == sort_by_field(rs, 1)

\* The line printed for one result.
line_of(r, dry_run) ==
    [ idx |-> r[1], wallet |-> r[2], closed |-> r[3], reclaimed |-> r[4],
      status |-> IF ~r[5] THEN "Failed"
                 ELSE IF r[3] = 0 /\ r[4] = 0 THEN "Clean"
                 ELSE IF dry_run THEN "DryRun"
                 ELSE "Closed" ]

RECURSIVE sum_field(_, _)
sum_field(rs, f) == IF rs = <<>> THEN 0 ELSE rs[1][f] + sum_field(Tail(rs), f)

\* `if let Ok(result) = handle.await { wallet_results.push(result); }`: the
\* handle of a task that panicked gives Err and nothing is pushed.
push_result_DefaultOnPanic(rs, t) ==
    IF t.pc = "done" THEN Append(rs, t.out) ELSE Append(rs, <<0, 0, 0, 0, FALSE>>)
push_result(rs, t) == IF t.pc = "done" THEN Append(rs, t.out) ELSE rs

\* `for handle in handles { if let Ok(result) = handle.await { push } }`: one
\* handle per step, in spawn order; after the last one the results are
\* sorted, printed and summed.
Collect ==
    /\ main_pc = "collecting"
    /\ awaited < Len(tasks)
    /\ Ended(tasks[awaited + 1])
    /\ LET t == tasks[awaited + 1]
           rs == push_result(wallet_results, t)
           sorted == sort_results(rs) IN
        /\ awaited' = awaited + 1
        /\ IF awaited + 1 < Len(tasks)
           THEN /\ wallet_results' = rs
                /\ UNCHANGED <<main_pc, printed, totals>>
           ELSE /\ wallet_results' = sorted
                /\ printed' = [k \in 1..Len(sorted) |-> line_of(sorted[k], fleet.dry_run)]
                /\ totals' = [total_closed |-> sum_field(sorted, 3),
                              total_reclaimed |-> sum_field(sorted, 4)]
                /\ main_pc' = "reported"
    /\ UNCHANGED <<pc, panicked, filterVars, planVars, runVars,
                   loadVars, fleet, wallets, permits, tasks, overtook>>
    /\ UNCHANGED mon

(***************************************************************************)
(* The wallet file: lines, fields and keys                                 *)
(*                                                                         *)
(* A line is a sequence of tokens [c, n]: c is the kind of text and n the  *)
(* key it encodes.  "sp" is white space, "hash" is '#', "comma" is ',',    *)
(* "text" is text that is not base58, "WALLET" is the word WALLET, "pk" is *)
(* the base58 of a 32-byte public key, "wpk" the base58 of a public key    *)
(* whose text begins with WALLET, "kp" the base58 of the 64-byte keypair   *)
(* of key n, and "invalid_utf8" is a byte sequence that is not UTF-8.      *)
(***************************************************************************)

Tok(c, n) == [c |-> c, n |-> n]

\* BufRead::lines(): Err for a line that is not valid UTF-8.
read_line(raw) ==
    IF \E k \in 1..Len(raw) : raw[k].c = "invalid_utf8"
    THEN [ok |-> FALSE, line |-> <<>>]
    ELSE [ok |-> TRUE, line |-> raw]

RECURSIVE trim_start(_)
trim_start(str) ==
    IF str # <<>> /\ str[1].c = "sp" THEN trim_start(Tail(str)) ELSE str

RECURSIVE trim_end(_)
trim_end(str) ==
    IF str # <<>> /\ str[Len(str)].c = "sp"
    THEN trim_end(SubSeq(str, 1, Len(str) - 1))
    ELSE str

\* str::trim
trim(str) == trim_end(trim_start(str))

\* str::starts_with('#')
starts_with_hash(str) == str # <<>> /\ str[1].c = "hash"

\* str::split(','): the empty string gives one empty part.
RECURSIVE split(_)
split(str) ==
    IF \A k \in 1..Len(str) : str[k].c # "comma" THEN <<str>>
    ELSE LET k == CHOOSE j \in 1..Len(str) :
                    str[j].c = "comma" /\ \A h \in 1..(j - 1) : str[h].c # "comma" IN
         <<SubSeq(str, 1, k - 1)>> \o split(SubSeq(str, k + 1, Len(str)))

Base58Kinds == {"WALLET", "pk", "wpk", "kp"}

\* Bytes the base58 text of a token decodes to.
decoded_len(tok) ==
    CASE tok.c \in {"pk", "wpk"} -> 32
      [] tok.c = "kp" -> 64
      [] OTHER -> 4

RECURSIVE bytes_len(_)
bytes_len(str) == IF str = <<>> THEN 0 ELSE decoded_len(str[1]) + bytes_len(Tail(str))

\* bs58::decode(s).into_vec()
bs58_decode(str) ==
    IF \A k \in 1..Len(str) : str[k].c \in Base58Kinds
    THEN [ok |-> TRUE, bytes |-> str]
    ELSE [ok |-> FALSE, bytes |-> <<>>]

\* <Pubkey as FromStr>::from_str: base58 of exactly 32 bytes.
parse_pubkey(str) ==
    IF bs58_decode(str).ok /\ bytes_len(str) = 32 /\ Len(str) = 1
    THEN [ok |-> TRUE, key |-> str[1].n]
    ELSE [ok |-> FALSE, key |-> 0]

\* Keypair::try_from(bytes): 64 bytes of a keypair.  A keypair is named by
\* the public key it derives.
keypair_try_from(bytes) ==
    IF bytes_len(bytes) = 64 /\ Len(bytes) = 1 /\ bytes[1].c = "kp"
    THEN [ok |-> TRUE, keypair |-> bytes[1].n]
    ELSE [ok |-> FALSE, keypair |-> 0]

\* Keypair::pubkey()
keypair_pubkey(keypair) == keypair

\* `if keypair.pubkey() != pubkey { warn; continue }`
keypair_matches_Unchecked(keypair, pubkey) == TRUE
keypair_matches(keypair, pubkey) == keypair_pubkey(keypair) = pubkey

Outcome(kind, pubkey, keypair) == [kind |-> kind, pubkey |-> pubkey, keypair |-> keypair]

\* `line.is_empty() || line.starts_with('#')`
skipped_before_parsing(line) == line = <<>> \/ starts_with_hash(line)

\* The body of the loop over the lines of the file, for one raw line: what
\* becomes of it.
load_line(raw) ==
    LET rd == read_line(raw)
        line == trim(rd.line)
        parts == split(line)
        pubkey_str == trim(parts[1])
        privkey_str == trim(parts[2])
        pubkey == parse_pubkey(pubkey_str)
        decoded == bs58_decode(privkey_str)
        keypair == keypair_try_from(decoded.bytes) IN
    IF ~rd.ok THEN Outcome("read_error", 0, 0)
    ELSE IF skipped_before_parsing(line) THEN Outcome("skip", 0, 0)
    ELSE IF Len(parts) # 2 THEN Outcome("invalid format", 0, 0)
    ELSE IF ~pubkey.ok THEN Outcome("invalid public key", 0, 0)
    ELSE IF ~decoded.ok THEN Outcome("invalid base58 private key", 0, 0)
    ELSE IF ~keypair.ok THEN Outcome("invalid keypair bytes", 0, 0)
    ELSE IF ~keypair_matches(keypair.keypair, pubkey.key)
         THEN Outcome("keypair doesn't match pubkey", 0, 0)
    ELSE Outcome("ok", pubkey.key, keypair.keypair)

WarningKinds == { "invalid format", "invalid public key", "invalid base58 private key",
                  "invalid keypair bytes", "keypair doesn't match pubkey" }

\* The token accounts the chain holds for a wallet: key n owns n mod 3 empty
\* accounts.
Ledger(pubkey) == ListOf([k \in 1..(pubkey % 3) |-> <<0, 0, 1>>])

(***************************************************************************)
(* The fleet with few wallets and every RPC outcome                        *)
(***************************************************************************)

\* Most wallets in the detailed fleet.
MaxFleetWallets == 2

\* What one wallet owns: nothing, one empty account, two empty accounts.
FleetChains == { ListOf([k \in 1..n |-> <<0, 0, 1>>]) : n \in 0..2 }

WalletLists(n) ==
    { [i \in 1..n |-> [pubkey |-> i, keypair |-> i, chain |-> cs[i]]] : cs \in [1..n -> FleetChains] }

FleetStart ==
    /\ pc = "fleet"
    /\ panicked = FALSE
    /\ accounts = <<>> /\ dust_lamports = 0 /\ closeable = <<>>
    /\ batch_arg = 0 /\ batch_size = 0 /\ batches = <<>> /\ txs = <<>>
    /\ RunIdle
    /\ permits = FleetPermits
    /\ tasks = <<>>
    /\ main_pc = "spawning"
    /\ awaited = 0
    /\ wallet_results = <<>>
    /\ printed = <<>>
    /\ totals = NoTotals
    /\ overtook = FALSE

\* The file was read to its end, one line per wallet.
Loaded ==
    /\ file = [openable |-> TRUE, lines |-> <<>>]
    /\ consumed = <<>>
    /\ line_num = Len(wallets)
    /\ warnings = <<>>
    /\ load_error = "none"

InitFleet ==
    /\ FleetStart
    /\ fleet \in [ dry_run : BOOLEAN, batch_size : {1}, dust : {0},
                   rpc : {{"ok", "err", "panic"}} ]
    /\ \E n \in 1..MaxFleetWallets : wallets \in WalletLists(n)
    /\ Loaded
    /\ MonIdle

NextFleet ==
    \/ Spawn
    \/ \E i \in 1..Len(tasks) : Acquire(i)
    \/ \E i \in 1..Len(tasks) : FleetFetch(i)
    \/ \E i \in 1..Len(tasks) : FleetBlockhash(i)
    \/ \E i \in 1..Len(tasks) : FleetSend(i)
    \/ Collect

SpecFleet == InitFleet /\ [][NextFleet]_vars

(***************************************************************************)
(* The fleet with more wallets than permits                                *)
(***************************************************************************)

\* Wallets in the fleet that contends for the semaphore.
LimiterWallets == 11

InitLimiter ==
    /\ FleetStart
    /\ fleet = [dry_run |-> FALSE, batch_size |-> 1, dust |-> 0, rpc |-> {"ok"}]
    /\ wallets = [i \in 1..LimiterWallets |->
                    [pubkey |-> i, keypair |-> i, chain |-> <<>>]]
    /\ Loaded
    /\ MonIdle

NextLimiter ==
    \/ Spawn
    \/ \E i \in 1..Len(tasks) : Acquire(i)
    \/ \E i \in 1..Len(tasks) : FleetFetch(i)
    \/ Collect

SpecLimiter == InitLimiter /\ [][NextLimiter]_vars

(***************************************************************************)
(* C9: the semaphore bounds the pipelines at work                          *)
(***************************************************************************)

Holders == { i \in 1..Len(tasks) : HoldsPermit(tasks[i]) }
Waiting == { i \in 1..Len(tasks) : ~HoldsPermit(tasks[i]) /\ ~Ended(tasks[i]) }

\* C9: at every moment at most 10 pipelines hold a permit and have not
\* finished, the semaphore's count is what those holders left of it, and
\* every other unfinished pipeline is waiting for its permit and has made no
\* RPC call.
C9_AtMostTenAtWork ==
    /\ Cardinality(Holders) <= 10
    /\ permits = FleetPermits - Cardinality(Holders)
    /\ \A i \in Waiting : tasks[i].pc = "acquire" /\ tasks[i].rpc = <<>>

\* Ten pipelines at work, none finished yet, and another one that was
\* spawned queues for a permit.
C9_Witness ==
    /\ Cardinality(Holders) = 10
    /\ permits = 0
    /\ \E i \in Waiting : tasks[i].pc = "acquire"
    /\ \E i \in Holders : tasks[i].rpc = <<>>

(***************************************************************************)
(* C10: the report follows the input order                                 *)
(***************************************************************************)

FleetReported == pc = "fleet" /\ main_pc = "reported"

\* C10: the lines of the report are in strictly increasing original index,
\* each under the wallet that stood at that index in the input, one line per
\* pipeline that returned, whatever order the pipelines ended in.
C10_ReportedInInputOrder ==
    FleetReported =>
        /\ \A k \in 1..(Len(printed) - 1) : printed[k].idx < printed[k + 1].idx
        /\ \A k \in 1..Len(printed) :
              /\ printed[k].idx + 1 \in 1..Len(wallets)
              /\ printed[k].wallet = wallets[printed[k].idx + 1].pubkey
              /\ tasks[printed[k].idx + 1].pc = "done"
        /\ Len(printed) = Cardinality({ i \in 1..Len(tasks) : tasks[i].pc = "done" })

\* A report of two lines or more after a later wallet's pipeline ended before
\* an earlier one's, the later one having closed fewer accounts.
C10_Witness ==
    /\ FleetReported
    /\ overtook
    /\ Len(printed) >= 2
    /\ printed[1].closed > printed[2].closed

(***************************************************************************)
(* C11: the permit spans the whole pipeline                                *)
(***************************************************************************)

AllEnded == Len(tasks) = Len(wallets) /\ \A i \in 1..Len(tasks) : Ended(tasks[i])

\* How an ended pipeline ended, read from what it left behind.
ExitOf(t) ==
    IF t.pc = "panicked" THEN "panic"
    ELSE IF t.work = NoWork
         THEN (IF ~t.out[5] THEN "fetch_failed"
               ELSE IF t.out[3] = 0 THEN "no_candidates" ELSE "dry_run")
         ELSE (IF ~t.out[5] THEN "blockhash_failed" ELSE "completed")

\* C11: a pipeline that has made an RPC call has acquired its permit first;
\* the permits out are exactly those of the pipelines that acquired and have
\* not ended, whichever way the others ended; once every pipeline has ended
\* all 10 permits are available.
C11_PermitSpansPipeline ==
    /\ \A i \in 1..Len(tasks) : tasks[i].pc = "acquire" => tasks[i].rpc = <<>>
    /\ \A i \in 1..Len(tasks) :
          (tasks[i].rpc # <<>> /\ ~Ended(tasks[i])) => HoldsPermit(tasks[i])
    /\ permits = FleetPermits - Cardinality(Holders)
    /\ AllEnded => permits = 10

\* Every pipeline has ended, one by a panic and one by a failed blockhash
\* fetch, and the semaphore is full again.
C11_Witness ==
    /\ AllEnded
    /\ permits = 10
    /\ \E i, j \in 1..Len(tasks) :
          ExitOf(tasks[i]) = "panic" /\ ExitOf(tasks[j]) = "blockhash_failed"

(***************************************************************************)
(* run_batch() from the wallet file on                                     *)
(***************************************************************************)

\* std::fs::File::open(file_path).context(..)?
OpenFile ==
    /\ pc = "fleet"
    /\ main_pc = "open"
    /\ IF file.openable
       THEN main_pc' = "loading" /\ UNCHANGED load_error
       ELSE main_pc' = "failed" /\ load_error' = "open"
    /\ UNCHANGED <<pc, panicked, filterVars, planVars, runVars,
                   file, consumed, line_num, warnings, fleet, wallets, permits, tasks,
                   awaited, wallet_results, printed, totals, overtook>>
    /\ UNCHANGED mon

\* How an iteration leaves the loop body: `line?` returns from run_batch(),
\* every warning is followed by `continue`.
loop_control(kind) == IF kind = "read_error" THEN "return" ELSE "continue"

\* One iteration of `for (line_num, line) in reader.lines().enumerate()`.
ReadLine ==
    /\ main_pc = "loading"
    /\ file.lines # <<>>
    /\ LET r == load_line(Head(file.lines)) IN
        /\ file' = [file EXCEPT !.lines = Tail(@)]
        /\ consumed' = Append(consumed, Head(file.lines))
        /\ line_num' = line_num + 1
        /\ IF loop_control(r.kind) = "return"
           THEN main_pc' = "failed" /\ load_error' = "read"
           ELSE UNCHANGED <<main_pc, load_error>>
        /\ warnings' = IF r.kind \in WarningKinds
                       THEN Append(warnings, [line |-> line_num + 1, text |-> r.kind])
                       ELSE warnings
        /\ wallets' = IF r.kind = "ok"
                      THEN Append(wallets, [pubkey |-> r.pubkey, keypair |-> r.keypair,
                                            chain |-> Ledger(r.pubkey)])
                      ELSE wallets
    /\ UNCHANGED <<pc, panicked, filterVars, planVars, runVars,
                   fleet, permits, tasks, awaited,
                   wallet_results, printed, totals, overtook>>
    /\ UNCHANGED mon

\* After the last line: `if wallets.is_empty() { bail!(..) }`, then the
\* semaphore is created and the spawn loop begins.
EndOfFile ==
    /\ main_pc = "loading"
    /\ file.lines = <<>>
    /\ IF wallets = <<>>
       THEN main_pc' = "failed" /\ load_error' = "no_wallets" /\ UNCHANGED permits
       ELSE main_pc' = "spawning" /\ permits' = FleetPermits /\ UNCHANGED load_error
    /\ UNCHANGED <<pc, panicked, filterVars, planVars, runVars,
                   file, consumed, line_num, warnings, fleet, wallets, tasks, awaited,
                   wallet_results, printed, totals, overtook>>
    /\ UNCHANGED mon

\* Most lines in a wallet file.
MaxLines == 2

\* Lines a wallet file may hold: empty, blank, comments, a header, wrong
\* field counts, fields that do not parse, a keypair of another wallet,
\* valid lines (plain, padded, and of a key whose text begins with WALLET)
\* and a line that is not UTF-8.
LineSamples ==
    { <<>>,
      <<Tok("sp", 0)>>,
      <<Tok("hash", 0), Tok("text", 0)>>,
      <<Tok("sp", 0), Tok("hash", 0)>>,
      <<Tok("WALLET", 0), Tok("comma", 0), Tok("text", 0)>>,
      <<Tok("text", 0)>>,
      <<Tok("pk", 1), Tok("comma", 0), Tok("kp", 1), Tok("comma", 0), Tok("text", 0)>>,
      <<Tok("text", 0), Tok("comma", 0), Tok("kp", 1)>>,
      <<Tok("pk", 1), Tok("comma", 0), Tok("text", 0)>>,
      <<Tok("pk", 1), Tok("comma", 0), Tok("pk", 2)>>,
      <<Tok("pk", 1), Tok("comma", 0)>>,
      <<Tok("pk", 1), Tok("comma", 0), Tok("kp", 2)>>,
      <<Tok("pk", 1), Tok("comma", 0), Tok("kp", 1)>>,
      <<Tok("sp", 0), Tok("pk", 2), Tok("sp", 0), Tok("comma", 0), Tok("sp", 0),
        Tok("kp", 2), Tok("sp", 0)>>,
      <<Tok("wpk", 3), Tok("comma", 0), Tok("kp", 3)>>,
      <<Tok("pk", 1), Tok("comma", 0), Tok("invalid_utf8", 0)>> }

Files ==
    { [openable |-> FALSE, lines |-> <<>>] } \cup
    { [openable |-> TRUE, lines |-> ls] :
        ls \in UNION { [1..n -> LineSamples] : n \in 0..MaxLines } }

InitBatch ==
    /\ pc = "fleet"
    /\ panicked = FALSE
    /\ accounts = <<>> /\ dust_lamports = 0 /\ closeable = <<>>
    /\ batch_arg = 0 /\ batch_size = 0 /\ batches = <<>> /\ txs = <<>>
    /\ RunIdle
    /\ fleet = [dry_run |-> FALSE, batch_size |-> 1, dust |-> 0,
                rpc |-> {"ok", "err", "panic"}]
    /\ wallets = <<>>
    /\ permits = 0
    /\ tasks = <<>>
    /\ main_pc = "open"
    /\ awaited = 0
    /\ wallet_results = <<>>
    /\ printed = <<>>
    /\ totals = NoTotals
    /\ overtook = FALSE
    /\ file \in Files
    /\ consumed = <<>>
    /\ line_num = 0
    /\ warnings = <<>>
    /\ load_error = "none"
    /\ MonIdle

NextBatch ==
    \/ OpenFile
    \/ ReadLine
    \/ EndOfFile
    \/ Spawn
    \/ \E i \in 1..Len(tasks) : Acquire(i)
    \/ \E i \in 1..Len(tasks) : FleetFetch(i)
    \/ \E i \in 1..Len(tasks) : FleetBlockhash(i)
    \/ \E i \in 1..Len(tasks) : FleetSend(i)
    \/ Collect

SpecBatch == InitBatch /\ [][NextBatch]_vars

(***************************************************************************)
(* C12: malformed lines are skipped with a warning                         *)
(***************************************************************************)

IsSpace(tok) == tok.c = "sp"
IsComma(tok) == tok.c = "comma"
NotSpace(tok) == tok.c # "sp"

\* What a line is, told from its text alone.
Unspaced(raw) == SelectSeq(raw, NotSpace)
Readable(raw) == \A k \in 1..Len(raw) : raw[k].c # "invalid_utf8"
BlankLine(raw) == Unspaced(raw) = <<>>
CommentLine(raw) == Unspaced(raw) # <<>> /\ Unspaced(raw)[1].c = "hash"
PairLine(raw) ==
    /\ Readable(raw)
    /\ Len(Unspaced(raw)) = 3
    /\ Unspaced(raw)[1].c \in {"pk", "wpk"}
    /\ Unspaced(raw)[2].c = "comma"
    /\ Unspaced(raw)[3].c = "kp"
ValidLine(raw) == PairLine(raw) /\ Unspaced(raw)[3].n = Unspaced(raw)[1].n
MismatchLine(raw) == PairLine(raw) /\ Unspaced(raw)[3].n # Unspaced(raw)[1].n

\* A line that does not split on ',' into two fields that parse as a public
\* key and a keypair: neither blank, nor a comment, nor a pair of keys.
MalformedLine(raw) ==
    /\ ~BlankLine(raw)
    /\ ~CommentLine(raw)
    /\ ~PairLine(raw)

\* The whole file: the lines read and the lines still to read.
FileLines == consumed \o file.lines

\* The lines consumed so far.
Consumed == consumed

\* The (pubkey, keypair) pairs of the valid lines of a list of lines, in order.
PairsOf(ls) ==
    LET valid == SelectSeq(ls, ValidLine) IN
    [k \in 1..Len(valid) |-> <<Unspaced(valid[k])[1].n, Unspaced(valid[k])[3].n>>]

LoadedPairs == [k \in 1..Len(wallets) |-> <<wallets[k].pubkey, wallets[k].keypair>>]

Warned(n) == \E k \in 1..Len(warnings) : warnings[k].line = n

LoadingOver == main_pc \in {"spawning", "collecting", "reported"}

\* C12: the wallets loaded are exactly the valid lines consumed, in file
\* order; every malformed line consumed got a warning with its line number;
\* loading never stops at a malformed line, so once loading is over every
\* line was consumed and the list is the valid lines of the whole file.
C12_MalformedLinesSkipped ==
    pc = "fleet" =>
        /\ LoadedPairs = PairsOf(Consumed)
        /\ \A n \in 1..line_num : MalformedLine(FileLines[n]) => Warned(n)
        /\ (main_pc = "failed" /\ load_error = "read")
              => line_num >= 1 /\ ~MalformedLine(FileLines[line_num])
        /\ LoadingOver => line_num = Len(FileLines) /\ LoadedPairs = PairsOf(FileLines)

(***************************************************************************)
(* C13: headers and comments                                               *)
(***************************************************************************)

\* The uppercased line begins with WALLET.
HeaderLine(raw) ==
    Unspaced(raw) # <<>> /\ Unspaced(raw)[1].c \in {"WALLET", "wpk"}

SkipLine(raw) == Readable(raw) /\ (BlankLine(raw) \/ CommentLine(raw) \/ HeaderLine(raw))
NotSkipLine(raw) == ~SkipLine(raw)

\* C13: a line that is empty, begins with '#' or begins with WALLET when
\* uppercased is passed over before any field is parsed: no warning names
\* it and no wallet comes from it.
C13_HeadersAndCommentsSkipped ==
    pc = "fleet" =>
        /\ \A n \in 1..line_num : SkipLine(FileLines[n]) => ~Warned(n)
        /\ LoadedPairs = PairsOf(SelectSeq(Consumed, NotSkipLine))

(***************************************************************************)
(* The clean command: one wallet (run) or a wallet file (run_batch)        *)
(***************************************************************************)

InitClean == InitRun \/ InitBatch

NextClean == NextRun \/ NextBatch

SpecClean == InitClean /\ [][NextClean]_vars

(***************************************************************************)
(* C14: only the wallet's own keypair signs                                *)
(***************************************************************************)

SingleWallet == pc # "fleet"

LocalPcs == {"local_confirm", "local_plan", "local_blockhash", "local_send", "local_wait"}

HasEvent(op) == \E k \in 1..Len(events) : events[k].op = op

\* Transactions the pipeline of wallet i has signed and sent.
SentBy(i) ==
    IF tasks[i].work = NoWork THEN <<>>
    ELSE IF "sent" \in DOMAIN tasks[i].work THEN tasks[i].work.sent
    ELSE <<>>

\* C14: every transaction submitted is signed by the keypair of the wallet
\* it cleans and by nothing else.  With one wallet, a keypair of another
\* wallet ends the run before the batches: no blockhash fetched, nothing
\* submitted.  With a wallet file, a line whose keypair derives another key
\* is warned about and loads no wallet, loading goes on after it, and every
\* pipeline runs for a loaded wallet with its own keypair.
C14_SignerIsWallet ==
    /\ SingleWallet =>
          /\ \A k \in 1..Len(events) :
                events[k].op = "submit" =>
                    /\ events[k].tx.payer = RunWallet
                    /\ events[k].tx.signers = {RunWallet}
          /\ (inflight # NoTx) => inflight.signers = {RunWallet}
          /\ (~cfg.connect /\ cfg.keypair # RunWallet) =>
                /\ pc \notin LocalPcs
                /\ ~HasEvent("get_latest_blockhash")
                /\ ~HasEvent("submit")
                /\ result \in {"running", "err_fetch", "ok_clean", "ok_dry_run",
                               "err_keypair", "err_keypair_mismatch"}
    /\ pc = "fleet" =>
          /\ \A k \in 1..Len(wallets) : keypair_pubkey(wallets[k].keypair) = wallets[k].pubkey
          /\ LoadedPairs = PairsOf(Consumed)
          /\ \A n \in 1..line_num : MismatchLine(FileLines[n]) => Warned(n)
          /\ (main_pc = "failed" /\ load_error = "read")
                => ~MismatchLine(FileLines[line_num])
          /\ Len(tasks) <= Len(wallets)
          /\ \A i \in 1..Len(tasks) : \A k \in 1..Len(SentBy(i)) :
                /\ SentBy(i)[k].tx.payer = wallets[i].pubkey
                /\ SentBy(i)[k].tx.signers = {wallets[i].pubkey}

\* A file with a line whose keypair belongs to another wallet and a valid
\* line: the run reported, one pipeline ran, and it sent a transaction signed
\* by its wallet's keypair.
C14_Witness ==
    /\ main_pc = "reported"
    /\ \E n \in 1..Len(FileLines) : MismatchLine(FileLines[n])
    /\ Len(tasks) = 1
    /\ Len(SentBy(1)) >= 1
    /\ SentBy(1)[1].ok

\* One wallet, a keypair of another wallet: the run ended with the mismatch
\* error after finding closeable accounts.
C14_SingleWitness ==
    /\ SingleWallet
    /\ result = "err_keypair_mismatch"
    /\ closeable # <<>>

(***************************************************************************)
(* C15: what is fatal to a fleet run                                       *)
(***************************************************************************)

\* C15: run_batch() fails only for a file that cannot be opened or a file
\* with no valid wallet in it; with any other file it gets to its report,
\* with a pipeline for every valid line and a line for every pipeline that
\* returned.
C15_OnlyOpenAndEmptyAreFatal ==
    pc = "fleet" =>
        /\ main_pc = "failed" => (~file.openable \/ PairsOf(FileLines) = <<>>)
        /\ main_pc = "reported" =>
              /\ Len(tasks) = Len(PairsOf(FileLines))
              /\ Len(printed) = Cardinality({ i \in 1..Len(tasks) : tasks[i].pc = "done" })
              /\ totals.total_closed = sum_field(wallet_results, 3)

(***************************************************************************)
(* C16: a failed account fetch stays with its wallet                       *)
(***************************************************************************)

\* Accounts and lamports of the chunks whose send was answered "ok";
\* `answers` are the answers to the sends, in chunk order.
RECURSIVE ClosedIn(_, _)
ClosedIn(cs, answers) ==
    IF cs = <<>> \/ answers = <<>> THEN 0
    ELSE (IF answers[1] = "ok" THEN Len(cs[1]) ELSE 0) + ClosedIn(Tail(cs), Tail(answers))

RECURSIVE ReclaimedIn(_, _)
ReclaimedIn(cs, answers) ==
    IF cs = <<>> \/ answers = <<>> THEN 0
    ELSE (IF answers[1] = "ok" THEN total_rent(cs[1]) ELSE 0)
         + ReclaimedIn(Tail(cs), Tail(answers))

\* The outcome of wallet j as its own index, key, chain accounts and the
\* answers to its own RPC calls give it.
OwnOutcome(j) ==
    LET w == wallets[j].pubkey
        a == tasks[j].rpc
        cands == filter_closeable_accounts(wallets[j].chain, U64(fleet.dust)).closeable
        cs == chunks(cands, fleet.batch_size)
        sends == SubSeq(a, 3, Len(a)) IN
    IF a[1] = "err" THEN <<j - 1, w, 0, 0, FALSE>>
    ELSE IF cands = <<>> THEN <<j - 1, w, 0, 0, TRUE>>
    ELSE IF fleet.dry_run THEN <<j - 1, w, Len(cands), total_rent(cands), TRUE>>
    ELSE IF a[2] = "err" THEN <<j - 1, w, Len(cands), 0, FALSE>>
    ELSE <<j - 1, w, ClosedIn(cs, sends), ReclaimedIn(cs, sends), TRUE>>

FetchFailed(i) == tasks[i].pc = "done" /\ tasks[i].rpc[1] = "err"

\* C16: a wallet whose account fetch failed ends with (its index, its key,
\* 0, 0, failed) after that one call: no blockhash fetched, nothing sent; it
\* is printed as Failed; and the outcome of every wallet is the one its own
\* chain and the answers to its own calls give, whatever happened to the
\* others.
C16_FetchFailureContained ==
    pc = "fleet" =>
        /\ \A i \in 1..Len(tasks) :
              FetchFailed(i) =>
                  /\ tasks[i].out = <<i - 1, wallets[i].pubkey, 0, 0, FALSE>>
                  /\ tasks[i].rpc = <<"err">>
                  /\ tasks[i].work = NoWork
        /\ \A j \in 1..Len(tasks) :
              tasks[j].pc = "done" => tasks[j].out = OwnOutcome(j)
        /\ main_pc = "reported" =>
              \A k \in 1..Len(printed) :
                  /\ FetchFailed(printed[k].idx + 1) => printed[k].status = "Failed"
                  /\ <<printed[k].idx, printed[k].wallet, printed[k].closed,
                       printed[k].reclaimed>>
                        = SubSeq(OwnOutcome(printed[k].idx + 1), 1, 4)

\* Two wallets: the fetch of the first failed, the second closed an account;
\* the report has a Failed line and a Closed line.
C16_Witness ==
    /\ main_pc = "reported"
    /\ Len(tasks) = 2
    /\ FetchFailed(1)
    /\ Len(printed) = 2
    /\ printed[1].status = "Failed"
    /\ printed[2].status = "Closed"
    /\ printed[2].closed >= 1

(***************************************************************************)
(* C17: a pipeline that panics                                             *)
(***************************************************************************)

DoneTasks == { i \in 1..Len(tasks) : tasks[i].pc = "done" }

RECURSIVE SumOut(_, _)
SumOut(is, f) ==
    IF is = {} THEN 0
    ELSE LET i == CHOOSE x \in is : TRUE IN tasks[i].out[f] + SumOut(is \ {i}, f)

\* C17: run_batch() is never held up by a task that panicked: whenever the
\* next handle to await is that of a panicked task, the await returns.  In the report a panicked pipeline has no line and adds nothing
\* to the totals, and every pipeline that returned has its line, in input
\* order.
C17_PanicIsAbsentNotBlocking ==
    pc = "fleet" =>
        /\ (main_pc = "collecting" /\ awaited < Len(tasks)
              /\ tasks[awaited + 1].pc = "panicked") => ENABLED Collect
        /\ Len(wallet_results) <= awaited
        /\ main_pc = "reported" =>
              /\ awaited = Len(tasks)
              /\ { printed[k].idx + 1 : k \in 1..Len(printed) } = DoneTasks
              /\ Len(printed) = Cardinality(DoneTasks)
              /\ \A k \in 1..(Len(printed) - 1) : printed[k].idx < printed[k + 1].idx
              /\ \A k \in 1..Len(printed) :
                    <<printed[k].idx, printed[k].wallet, printed[k].closed,
                      printed[k].reclaimed>> = SubSeq(tasks[printed[k].idx + 1].out, 1, 4)
              /\ totals = [total_closed |-> SumOut(DoneTasks, 3),
                           total_reclaimed |-> SumOut(DoneTasks, 4)]

\* Two wallets, the first pipeline panicked, the second closed an account:
\* the report has the second wallet's line only and the totals are its own.
C17_Witness ==
    /\ main_pc = "reported"
    /\ Len(tasks) = 2
    /\ tasks[1].pc = "panicked"
    /\ tasks[2].pc = "done"
    /\ Len(printed) = 1
    /\ printed[1].idx = 1
    /\ totals.total_closed = tasks[2].out[3]
    /\ totals.total_closed >= 1

(***************************************************************************)
(* connect_wallet() (src/src/solanapay/mod.rs)                             *)
(*                                                                         *)
(* A string is [chars, key]: chars holds the UTF-8 width in bytes of each  *)
(* of its characters, key is the public key it is the base58 text of, or 0 *)
(* when it is no public key.                                               *)
(***************************************************************************)

\* tokio::time::sleep(Duration::from_secs(2))
PollInterval == 2

RECURSIVE SumSeq(_)
SumSeq(ws) == IF ws = <<>> THEN 0 ELSE ws[1] + SumSeq(Tail(ws))

\* str::len(): the length in bytes.
str_len(str) == SumSeq(str.chars)

\* str::is_char_boundary(k)
is_char_boundary(str, k) ==
    \E n \in 0..Len(str.chars) : SumSeq(SubSeq(str.chars, 1, n)) = k

\* `&w[..4]` and `&w[w.len() - 4..]` when w.len() > 8: slicing a str off a
\* character boundary panics.
short_panics(w) ==
    /\ str_len(w) > 8
    /\ (~is_char_boundary(w, 4) \/ ~is_char_boundary(w, str_len(w) - 4))

\* w.parse::<Pubkey>()
parse_wallet(w) == IF w.key # 0 THEN [ok |-> TRUE, key |-> w.key] ELSE [ok |-> FALSE, key |-> 0]

Str(ws, key) == [some |-> TRUE, chars |-> ws, key |-> key]
None == [some |-> FALSE, chars |-> <<>>, key |-> 0]

Ascii(n) == [k \in 1..n |-> 1]

\* Wallet strings a poll may carry: the base58 of a public key, short text,
\* long ASCII text, and three texts with two-byte characters.
WalletStrings ==
    { Str(Ascii(44), 7),
      Str(Ascii(3), 0),
      Str(Ascii(12), 0),
      Str(<<2, 2, 2, 2, 2>>, 0),
      Str(<<1, 2, 2, 2, 2>>, 0),
      Str(<<2, 2, 2, 2, 1>>, 0) }

\* What poll_session() may return: Err (request failed, status not 2xx, body
\* not a PollResponse) or Ok(PollResponse { connected, wallet }).
PollAnswers ==
    { [ok |-> FALSE, connected |-> FALSE, wallet |-> None] } \cup
    [ ok : {TRUE}, connected : BOOLEAN, wallet : {None} \cup WalletStrings ]

NoAnswer == [ok |-> FALSE, connected |-> FALSE, wallet |-> None]

\* One entry of the call log of connect_wallet().
Call(op, ok, secs, answer) == [op |-> op, ok |-> ok, secs |-> secs, answer |-> answer]

NoRet == [ok |-> FALSE, key |-> 0, error |-> "none"]
ConnStart == [pc |-> "create", log |-> <<>>, ret |-> NoRet]

ConnReturn(c, ret) == [c EXCEPT !.pc = "returned", !.ret = ret]

PollsOf(log) == SelectSeq(log, LAMBDA e : e.op = "poll")

\* create_connect_session(..).await?
CreateSession ==
    /\ pc = "connect"
    /\ conn.pc = "create"
    /\ \E ok \in BOOLEAN :
        LET c == [conn EXCEPT !.log = Append(@, Call("create", ok, 0, NoAnswer))] IN
        conn' = IF ok THEN [c EXCEPT !.pc = "qr"]
                ELSE ConnReturn(c, [ok |-> FALSE, key |-> 0, error |-> "create"])
    /\ UNCHANGED <<pc, panicked, filterVars, planVars, fleetVars,
                   cfg, batch_i, closed, reclaimed, sigs, lh, inflight, events, result,
                   reported>>
    /\ UNCHANGED mon

\* display_qr(&url)?
DisplayQr ==
    /\ pc = "connect"
    /\ conn.pc = "qr"
    /\ \E ok \in BOOLEAN :
        LET c == [conn EXCEPT !.log = Append(@, Call("qr", ok, 0, NoAnswer))] IN
        conn' = IF ok THEN [c EXCEPT !.pc = "sleep"]
                ELSE ConnReturn(c, [ok |-> FALSE, key |-> 0, error |-> "qr"])
    /\ UNCHANGED <<pc, panicked, filterVars, planVars, fleetVars,
                   cfg, batch_i, closed, reclaimed, sigs, lh, inflight, events, result,
                   reported>>
    /\ UNCHANGED mon

\* The polls the model follows one call through.
MaxPolls == 3

\* tokio::time::sleep(Duration::from_secs(2)).await at the top of the loop
Sleep ==
    /\ pc = "connect"
    /\ conn.pc = "sleep"
    /\ Len(PollsOf(conn.log)) < MaxPolls
    /\ conn' = [conn EXCEPT !.pc = "poll",
                            !.log = Append(@, Call("sleep", TRUE, PollInterval, NoAnswer))]
    /\ UNCHANGED <<pc, panicked, filterVars, planVars, fleetVars,
                   cfg, batch_i, closed, reclaimed, sigs, lh, inflight, events, result,
                   reported>>
    /\ UNCHANGED mon

\* The rest of one turn of the loop for the answer `a` of poll_session().
after_poll(c, a) ==
    IF ~a.ok THEN ConnReturn(c, [ok |-> FALSE, key |-> 0, error |-> "poll"])
    ELSE IF a.connected /\ a.wallet.some
         THEN IF short_panics(a.wallet) THEN [c EXCEPT !.pc = "panicked"]
              ELSE LET r == parse_wallet(a.wallet) IN
                   IF r.ok THEN ConnReturn(c, [ok |-> TRUE, key |-> r.key, error |-> "none"])
                   ELSE ConnReturn(c, [ok |-> FALSE, key |-> 0, error |-> "parse"])
         ELSE [c EXCEPT !.pc = "sleep"]

\* poll_session(..).await? and what the loop does with the response
Poll ==
    /\ pc = "connect"
    /\ conn.pc = "poll"
    /\ \E a \in PollAnswers :
        /\ conn' = after_poll([conn EXCEPT !.log = Append(@, Call("poll", a.ok, 0, a))], a)
        /\ panicked' = (a.ok /\ a.connected /\ a.wallet.some /\ short_panics(a.wallet))
    /\ UNCHANGED <<pc, filterVars, planVars, fleetVars,
                   cfg, batch_i, closed, reclaimed, sigs, lh, inflight, events, result,
                   reported>>
    /\ UNCHANGED mon

InitConnect ==
    /\ pc = "connect"
    /\ accounts = <<>> /\ dust_lamports = 0 /\ closeable = <<>>
    /\ panicked = FALSE
    /\ batch_arg = BatchMin /\ batch_size = BatchMin /\ batches = <<>> /\ txs = <<>>
    /\ cfg = NoCfg
    /\ conn = ConnStart
    /\ batch_i = 0 /\ closed = 0 /\ reclaimed = 0 /\ sigs = <<>>
    /\ lh = "none" /\ inflight = NoTx /\ events = <<>> /\ result = "running"
    /\ reported = NoReport
    /\ FleetIdle
    /\ MonIdle

NextConnect ==
    \/ CreateSession
    \/ DisplayQr
    \/ Sleep
    \/ Poll

SpecConnect == InitConnect /\ [][NextConnect]_vars

\* C18: connect_wallet creates one session and then alternates a 2-second
\* sleep with one poll; connected=false keeps it polling; it leaves in exactly
\* two ways, Ok(the key parsed from the wallet string of a connected=true
\* response) or Err (an unparsable wallet string or a failed poll), with no
\* poll after either; it never returns while every poll answers
\* connected=false.
ConnExited == conn.pc \notin {"create", "qr", "sleep", "poll"}

LastPoll == LET ps == PollsOf(conn.log) IN ps[Len(ps)].answer

SleepPollAlternate ==
    \A k \in 1..Len(conn.log) :
        LET e == conn.log[k] IN
        /\ (e.op = "create") = (k = 1)
        /\ e.op = "sleep" => e.secs = PollInterval
        /\ e.op = "poll" => k > 1 /\ conn.log[k - 1].op = "sleep"
        /\ (e.op = "sleep" /\ k < Len(conn.log)) => conn.log[k + 1].op = "poll"

C18_SleepPollUntilKeyOrError ==
    pc = "connect" =>
        /\ SleepPollAlternate
        /\ (conn.pc = "sleep" /\ PollsOf(conn.log) # <<>>) =>
               (LastPoll.ok /\ ~(LastPoll.connected /\ LastPoll.wallet.some))
        /\ (PollsOf(conn.log) # <<>> /\ LastPoll.ok /\ ~LastPoll.connected) =>
               ~ConnExited
        /\ ConnExited => conn.pc = "returned"
        /\ (conn.pc = "returned" /\ conn.ret.ok) =>
               /\ LastPoll.ok /\ LastPoll.connected /\ LastPoll.wallet.some
               /\ LastPoll.wallet.key # 0
               /\ conn.ret.key = LastPoll.wallet.key
               /\ conn.log[Len(conn.log)].op = "poll"
        /\ (conn.pc = "returned" /\ ~conn.ret.ok /\ PollsOf(conn.log) # <<>>) =>
               /\ conn.log[Len(conn.log)].op = "poll"
               /\ \/ ~LastPoll.ok
                  \/ LastPoll.connected /\ LastPoll.wallet.some /\ LastPoll.wallet.key = 0

\* C19: a relay execution fetches a blockhash once, puts it in every batch's
\* transaction, signs none, uploads all of them in one request, and after
\* that neither submits a transaction nor polls the relay.
Blockhashes == SelectSeq(events, LAMBDA e : e.op = "get_latest_blockhash")
Uploads == SelectSeq(events, LAMBDA e : e.op = "upload")

\* The blockhashes the node returned: the positions of the fetches in `events`.
FetchedHashes ==
    { k \in 1..Len(events) : events[k].op = "get_latest_blockhash" /\ events[k].ok }

RelayOps == {"get_program_accounts", "sol_price", "confirm", "get_latest_blockhash", "upload"}

C19_OneHashOneUploadNoSend ==
    cfg.connect =>
        /\ \A k \in 1..Len(events) : events[k].op \in RelayOps
        /\ Len(Blockhashes) <= 1
        /\ Len(Uploads) <= 1
        /\ Sends = <<>>
        /\ inflight = NoTx
        /\ Uploads # <<>> =>
              /\ events[Len(events)].op = "upload"
              /\ Cardinality(FetchedHashes) = 1
              /\ LET sent == Uploads[1].txs
                     bs == chunks(closeable, batch_size) IN
                 /\ Len(sent) = Len(bs)
                 /\ Len(sent) >= 1
                 /\ \A k \in 1..Len(sent) :
                       /\ sent[k].recent_blockhash \in FetchedHashes
                       /\ sent[k].signers = {}
                       /\ sent[k].payer = RunWallet
                       /\ sent[k].instructions = relay_ixs(bs[k], RunWallet).ixs
        /\ result = "ok_uploaded" => (Uploads # <<>> /\ Uploads[1].ok)

\* Three batches went to the relay in one upload.
C19_Witness ==
    /\ cfg.connect
    /\ result = "ok_uploaded"
    /\ Len(Uploads[1].txs) = 3
    /\ Len(events) = 5

\* C20: in the keypair path of run() and in the pipelines of run_batch(),
\* every batch's transaction carries a blockhash fetched for that batch after
\* the submission of the previous batch finished; no two batches of one
\* wallet carry the same fetched blockhash.
FreshForSubmit(p) ==
    LET h == events[p].tx.recent_blockhash IN
    /\ h \in FetchedHashes
    /\ h < p
    /\ \A q \in (h + 1)..(p - 1) : ~IsSend(events[q])

C20_FreshBlockhashPerBatch ==
    /\ SingleWallet =>
          /\ \A p \in 1..Len(events) : IsSubmit(events[p]) => FreshForSubmit(p)
          /\ \A j, k \in 1..Len(Submits) :
                j < k => Submits[j].tx.recent_blockhash # Submits[k].tx.recent_blockhash
    /\ pc = "fleet" =>
          \A i \in 1..Len(tasks) : \A j, k \in 1..Len(SentBy(i)) :
                j < k => SentBy(i)[j].tx.recent_blockhash # SentBy(i)[k].tx.recent_blockhash

(***************************************************************************)
(* C21: what the fleet counts as closed                                    *)
(***************************************************************************)

\* The closeable accounts of wallet i as its pipeline found them.
CandidatesOf(i) == filter_closeable_accounts(wallets[i].chain, U64(fleet.dust)).closeable

\* Accounts, and their lamports, in the batches of wallet i whose submission
\* succeeded.
RECURSIVE SucceededAccounts(_, _)
SucceededAccounts(cs, sent) ==
    IF sent = <<>> THEN 0
    ELSE (IF sent[1].ok THEN Len(cs[sent[1].chunk]) ELSE 0)
         + SucceededAccounts(cs, Tail(sent))

RECURSIVE SucceededLamports(_, _)
SucceededLamports(cs, sent) ==
    IF sent = <<>> THEN 0
    ELSE (IF sent[1].ok THEN total_rent(cs[sent[1].chunk]) ELSE 0)
         + SucceededLamports(cs, Tail(sent))

ClosedBy(i) == SucceededAccounts(chunks(CandidatesOf(i), fleet.batch_size), SentBy(i))
ReclaimedBy(i) == SucceededLamports(chunks(CandidatesOf(i), fleet.batch_size), SentBy(i))

RECURSIVE SumClosedBy(_)
SumClosedBy(is) ==
    IF is = {} THEN 0
    ELSE LET i == CHOOSE x \in is : TRUE IN ClosedBy(i) + SumClosedBy(is \ {i})

RECURSIVE SumReclaimedBy(_)
SumReclaimedBy(is) ==
    IF is = {} THEN 0
    ELSE LET i == CHOOSE x \in is : TRUE IN ReclaimedBy(i) + SumReclaimedBy(is \ {i})

\* C21: in a fleet run that is not a dry run every wallet's closed count and
\* reclaimed lamports are those of the batches whose submission succeeded, on
\* every path of the pipeline, and 'Total closed' is their sum over the
\* reported wallets.
C21_CountsOnlySucceededBatches ==
    (pc = "fleet" /\ ~fleet.dry_run) =>
        /\ \A i \in 1..Len(tasks) :
              tasks[i].pc = "done" =>
                  /\ tasks[i].out[3] = ClosedBy(i)
                  /\ tasks[i].out[4] = ReclaimedBy(i)
        /\ main_pc = "reported" =>
              /\ \A k \in 1..Len(printed) :
                    /\ printed[k].closed = ClosedBy(printed[k].idx + 1)
                    /\ printed[k].reclaimed = ReclaimedBy(printed[k].idx + 1)
              /\ totals.total_closed = SumClosedBy(DoneTasks)
              /\ totals.total_reclaimed = SumReclaimedBy(DoneTasks)

\* C22: in the keypair path of run(), once the batch loop has begun no
\* failure of a per-batch step ends the run early: every batch is attempted
\* and the totals of the succeeded batches are reported.
C22_NoBatchFailureAborts ==
    (SingleWallet /\ LocalStarted /\ pc = "run_done") =>
        /\ result = "ok_done"
        /\ Len(Blockhashes) = Len(batches)
        /\ reported = [status |-> "done", closed |-> AccountsIn(Succeeded),
                       reclaimed |-> LamportsIn(Succeeded), signatures |-> sigs]
        /\ Len(sigs) = Len(Succeeded)

\* C23: the delegate and frozen fields count as 'not set' only when their
\* bytes are missing: in every buffer of 76 bytes or more a delegate tag of 1
\* at bytes 72..76 blocks closure, and in every buffer of 109 bytes or more a
\* state byte of 2 at offset 108 blocks closure.
C23_FieldsReadWheneverPresent ==
    FilterDone =>
        \A i \in 1..Len(accounts) :
            LET data == DataOf(accounts[i]) IN
            /\ (Len(data) >= 76 /\ LayoutDelegateTag(data) = 1) => ~Emitted(i)
            /\ (Len(data) >= 109 /\ LayoutState(data) = 2) => ~Emitted(i)

(***************************************************************************)
(* C24: where the blocking RPC calls run                                   *)
(*                                                                         *)
(* crate::rpc::client() is the blocking RpcClient.  A call wrapped in      *)
(* tokio::task::spawn_blocking(..).await runs on the blocking pool; a call *)
(* written directly in an async fn or in a tokio::spawn task runs on the   *)
(* scheduler's worker thread.                                              *)
(***************************************************************************)

\* fetch_and_analyze(): spawn_blocking(move || { .. get_program_accounts_with_config }).await
fetch_context == "spawn_blocking"

\* run(): client.get_latest_blockhash()? and client.send_and_confirm_transaction(&tx)
\* are called directly in the async fn.
run_rpc_context(op) ==
    CASE op = "get_program_accounts" -> fetch_context
      [] op = "get_latest_blockhash" -> "async_task"
      [] op = "submit" -> "async_task"

\* run_batch(): the k-th RPC call of a pipeline (1 the account fetch, 2 the
\* blockhash, 3.. the sends) is made directly inside the tokio::spawn task.
fleet_rpc_context(k) == "async_task"

RpcOps == {"get_program_accounts", "get_latest_blockhash", "submit"}

\* C24: every RPC call of the clean flows (account fetch, blockhash fetch,
\* send-and-confirm), in single-wallet and fleet mode, runs on the blocking
\* pool and is awaited, never directly on a scheduler task.
C24_RpcOnBlockingContext ==
    /\ SingleWallet =>
          \A k \in 1..Len(events) :
              events[k].op \in RpcOps => run_rpc_context(events[k].op) = "spawn_blocking"
    /\ pc = "fleet" =>
          \A i \in 1..Len(tasks) : \A k \in 1..Len(tasks[i].rpc) :
              fleet_rpc_context(k) = "spawn_blocking"

(***************************************************************************)
(* monitor::run() (src/src/commands/monitor.rs)                            *)
(*                                                                         *)
(* A signature string is a number: 0 is text that is no signature, n > 0   *)
(* the base58 text of signature n.  get_signatures_for_address returns the *)
(* strings newest first.                                                   *)
(***************************************************************************)

\* --interval of the monitor command: default_value_t = 3
DefaultInterval == 3

\* utils::parse_signature(&info.signature)
parse_signature(str) == IF str # 0 THEN [ok |-> TRUE, sig |-> str] ELSE [ok |-> FALSE, sig |-> 0]

\* sigs.iter().rev()
RECURSIVE rev(_)
rev(list) == IF list = <<>> THEN <<>> ELSE Append(rev(Tail(list)), list[1])

\* `for info in &initial { if let Ok(sig) = parse { seen.insert(sig); } }`
load_seen_Forgets(initial) == {}
load_seen(initial) ==
    { parse_signature(initial[k]).sig : k \in { j \in 1..Len(initial) : parse_signature(initial[j]).ok } }

\* What get_signatures_for_address may return: nothing, old and new
\* signatures, a string that does not parse, the same signature twice.
SigLists ==
    { <<>>, <<1>>, <<2, 1>>, <<3, 2>>, <<0, 1>>, <<3, 0, 2, 1>>, <<2, 2>> }

\* The poll rounds the model follows the loop through.
MaxRounds == 2

MonStartState(interval) ==
    [ pc |-> "start", interval |-> interval, seen |-> {}, initial |-> <<>>,
      rounds |-> <<>>, todo |-> <<>>, ret |-> "running" ]

MonReturn(st, err) == [st EXCEPT !.pc = "returned", !.ret = err]

\* `let wallet = utils::parse_pubkey(wallet_str)?;`
MonStart ==
    /\ pc = "monitor"
    /\ mon.pc = "start"
    /\ \E ok \in BOOLEAN :
        mon' = IF ok THEN [mon EXCEPT !.pc = "initial"] ELSE MonReturn(mon, "err_wallet")
    /\ UNCHANGED <<pc, panicked, filterVars, planVars, runVars, fleetVars>>

\* The initial fetch: spawn_blocking(get_signatures_for_address).await?
\* .context("Failed initial fetch")? and the loading of `seen`.
MonInitial ==
    /\ pc = "monitor"
    /\ mon.pc = "initial"
    /\ \/ mon' = MonReturn(mon, "err_initial")
       \/ \E resp \in SigLists :
            mon' = [mon EXCEPT !.pc = "poll", !.initial = resp, !.seen = load_seen(resp)]
    /\ UNCHANGED <<pc, panicked, filterVars, planVars, runVars, fleetVars>>

\* Top of the loop: spawn_blocking(get_signatures_for_address).await?
\* .context("RPC error")?
MonPoll ==
    /\ pc = "monitor"
    /\ mon.pc = "poll"
    /\ Len(mon.rounds) < MaxRounds
    /\ \/ mon' = MonReturn(mon, "err_rpc")
       \/ \E resp \in SigLists :
            mon' = [mon EXCEPT !.pc = "process",
                               !.rounds = Append(@, [resp |-> resp, before |-> mon.seen,
                                                     out |-> <<>>, slept |-> -1]),
                               !.todo = rev(resp)]
    /\ UNCHANGED <<pc, panicked, filterVars, planVars, runVars, fleetVars>>

\* One iteration of `for info in sigs.iter().rev()`: parse, skip what is
\* seen, insert, fetch the details (an RPC error there only loses the balance
\* change; a JoinError returns), print the line.
MonProcess ==
    /\ pc = "monitor"
    /\ mon.pc = "process"
    /\ mon.todo # <<>>
    /\ LET p == parse_signature(Head(mon.todo))
           r == Len(mon.rounds)
           rest == [mon EXCEPT !.todo = Tail(@)] IN
       IF ~p.ok \/ p.sig \in mon.seen
       THEN mon' = rest
       ELSE \E tx \in {"ok", "err", "join_err"} :
              LET st == [rest EXCEPT !.seen = @ \cup {p.sig}] IN
              mon' = IF tx = "join_err" THEN MonReturn(st, "err_join")
                     ELSE [st EXCEPT !.rounds[r].out = Append(@, p.sig)]
    /\ UNCHANGED <<pc, panicked, filterVars, planVars, runVars, fleetVars>>

\* tokio::time::sleep(delay).await at the bottom of the loop
MonSleep ==
    /\ pc = "monitor"
    /\ mon.pc = "process"
    /\ mon.todo = <<>>
    /\ mon' = [mon EXCEPT !.pc = "poll", !.rounds[Len(mon.rounds)].slept = mon.interval]
    /\ UNCHANGED <<pc, panicked, filterVars, planVars, runVars, fleetVars>>

InitMonitor ==
    /\ pc = "monitor"
    /\ panicked = FALSE
    /\ accounts = <<>> /\ dust_lamports = 0 /\ closeable = <<>>
    /\ batch_arg = 0 /\ batch_size = 0 /\ batches = <<>> /\ txs = <<>>
    /\ RunIdle
    /\ FleetIdle
    /\ mon \in { MonStartState(i) : i \in {0, DefaultInterval} }

NextMonitor ==
    \/ MonStart
    \/ MonInitial
    \/ MonPoll
    \/ MonProcess
    \/ MonSleep

SpecMonitor == InitMonitor /\ [][NextMonitor]_vars

\* The initial fetch succeeded.
MonWatching == pc = "monitor" /\ mon.pc \notin {"start", "initial"}
                  /\ mon.ret \notin {"err_wallet", "err_initial"}

\* C25: the watch loop has no stop condition of its own: once the initial
\* fetch succeeded the command never returns, whatever the RPC calls of a
\* round returned, and every round is followed by the interval sleep before
\* the next one.
C25_WatchLoopNeverReturns ==
    MonWatching =>
        /\ mon.pc \in {"poll", "process"}
        /\ mon.ret = "running"
        /\ \A r \in 1..Len(mon.rounds) :
              (r < Len(mon.rounds) \/ mon.pc = "poll") => mon.rounds[r].slept = mon.interval

(***************************************************************************)
(* C29: what the monitor reports                                           *)
(***************************************************************************)

RECURSIVE Flatten(_)
Flatten(outs) == IF outs = <<>> THEN <<>> ELSE outs[1].out \o Flatten(Tail(outs))

\* Every signature reported so far, in the order reported.
MonReported == Flatten(mon.rounds)

\* Position of the last occurrence of signature string x in a response.
LastIn(resp, x) == CHOOSE k \in 1..Len(resp) : resp[k] = x /\ \A j \in (k + 1)..Len(resp) : resp[j] # x

\* Round r went through its whole response.
RoundDone(r) == r < Len(mon.rounds) \/ mon.pc = "poll"

MonReportsOnceOldestFirst ==
    pc = "monitor" /\ mon.pc \notin {"start", "initial"} /\ mon.ret # "err_wallet" =>
        /\ \A i, j \in 1..Len(MonReported) : i # j => MonReported[i] # MonReported[j]
        /\ \A i \in 1..Len(MonReported) :
              \A k \in 1..Len(mon.initial) : MonReported[i] # mon.initial[k]
        /\ { mon.initial[k] : k \in 1..Len(mon.initial) } \ {0} \subseteq mon.seen
        /\ { MonReported[i] : i \in 1..Len(MonReported) } \subseteq mon.seen
        /\ \A r \in 1..Len(mon.rounds) :
              LET rd == mon.rounds[r] IN
              /\ rd.before \subseteq mon.seen
              /\ \A i \in 1..Len(rd.out) :
                    /\ \E k \in 1..Len(rd.resp) : rd.resp[k] = rd.out[i]
                    /\ rd.out[i] \notin rd.before
              /\ \A i, j \in 1..Len(rd.out) :
                    i < j => LastIn(rd.resp, rd.out[i]) > LastIn(rd.resp, rd.out[j])
              /\ RoundDone(r) =>
                    { rd.out[i] : i \in 1..Len(rd.out) }
                        = ({ rd.resp[k] : k \in 1..Len(rd.resp) } \ {0}) \ rd.before

\* C29: over all poll rounds every signature is reported at most once, a
\* signature of the initial fetch is never reported, the set of seen
\* signatures only grows, and within a round the new signatures are reported
\* oldest first, the reverse of the order the RPC returned them in.
C29_ReportedOnceOldestFirst ==
    /\ []MonReportsOnceOldestFirst
    /\ [][mon.seen \subseteq mon'.seen]_vars

\* Signature 1 was there at the start; a round returned 3, an unparsable
\* string, 2 and 1: 2 then 3 were reported; the next round returned 3 and 2
\* again and reported nothing.
C29_Witness ==
    /\ pc = "monitor"
    /\ mon.pc = "poll"
    /\ mon.initial = <<1>>
    /\ Len(mon.rounds) = 2
    /\ mon.rounds[1].resp = <<3, 0, 2, 1>>
    /\ mon.rounds[1].out = <<2, 3>>
    /\ mon.rounds[2].resp = <<3, 2>>
    /\ mon.rounds[2].out = <<>>
    /\ mon.seen = {1, 2, 3}

(***************************************************************************)
(* C26: dry run, in run() and in run_batch()                               *)
(***************************************************************************)

InitDry == InitRun \/ InitFleet

NextDry == NextRun \/ NextFleet

SpecDry == InitDry /\ [][NextDry]_vars

DryOps == {"get_program_accounts", "sol_price"}

\* C26: with dry-run set only the account fetch and the classification
\* happen, in run() and in every pipeline of run_batch(): no blockhash is
\* fetched, no transaction is built, signed, uploaded or submitted, and the
\* counts reported are those of the closeable accounts found.
C26_DryRunTouchesNothing ==
    /\ (SingleWallet /\ cfg.dry_run) =>
          /\ \A k \in 1..Len(events) : events[k].op \in DryOps
          /\ lh = "none" /\ batches = <<>> /\ txs = <<>> /\ inflight = NoTx
          /\ sigs = <<>> /\ closed = 0 /\ reclaimed = 0
          /\ result \in {"running", "err_fetch", "ok_clean", "ok_dry_run"}
          /\ result = "ok_dry_run" =>
                LET found == filter_closeable_accounts(accounts, U64(dust_lamports)).closeable IN
                reported = [status |-> "found", closeable |-> Len(found),
                            reclaimable |-> total_rent(found)]
    /\ (pc = "fleet" /\ fleet.dry_run) =>
          /\ \A i \in 1..Len(tasks) :
                /\ Len(tasks[i].rpc) <= 1
                /\ tasks[i].work = NoWork
                /\ (tasks[i].pc = "done" /\ tasks[i].rpc = <<"ok">>) =>
                      tasks[i].out = <<i - 1, wallets[i].pubkey, Len(CandidatesOf(i)),
                                       total_rent(CandidatesOf(i)), TRUE>>
          /\ main_pc = "reported" =>
                \A k \in 1..Len(printed) :
                    printed[k].status # "Failed" =>
                        /\ printed[k].closed = Len(CandidatesOf(printed[k].idx + 1))
                        /\ printed[k].status \in {"Clean", "DryRun"}

\* A dry run of run() found two closeable accounts and returned after the
\* fetch and the price lookup.
C26_Witness ==
    /\ SingleWallet
    /\ cfg.dry_run /\ ~cfg.connect
    /\ result = "ok_dry_run"
    /\ reported.closeable = 2
    /\ Len(events) = 2

\* C27: in the fleet report a wallet is 'Clean' only if the classification
\* found no closeable account for it; a wallet with closeable accounts whose
\* submissions were all rejected is not reported as clean.
C27_CleanMeansNothingToClose ==
    FleetReported =>
        \A k \in 1..Len(printed) :
            printed[k].status = "Clean" => CandidatesOf(printed[k].idx + 1) = <<>>

\* C28: without JSON output, in relay and in keypair mode, the confirmation
\* prompt comes before the first blockhash fetch, upload or submission, and
\* when the user declines none of them happens.
ChainOps == {"get_latest_blockhash", "upload", "submit"}

Answered(k, answer) == events[k].op = "confirm" /\ events[k].answer = answer

C28_DeclineStopsBeforeChain ==
    (SingleWallet /\ ~cfg.json) =>
        /\ \A k \in 1..Len(events) :
              events[k].op \in ChainOps => \E j \in 1..(k - 1) : Answered(j, "yes")
        /\ (\E j \in 1..Len(events) : Answered(j, "no")) =>
              /\ \A k \in 1..Len(events) : events[k].op \notin ChainOps
              /\ events[Len(events)].op = "confirm"
              /\ result = "ok_cancelled"
              /\ lh = "none" /\ txs = <<>> /\ inflight = NoTx
              /\ closed = 0 /\ sigs = <<>>

\* The keypair matched, the user declined the prompt: run() returned with
\* nothing fetched or sent after the prompt.
C28_Witness ==
    /\ SingleWallet
    /\ ~cfg.json /\ ~cfg.connect /\ ~cfg.dry_run
    /\ cfg.keypair = RunWallet
    /\ result = "ok_cancelled"
    /\ Len(closeable) >= 1
    /\ Answered(Len(events), "no")

(***************************************************************************)
(* C30: the fleet under a fair scheduler                                   *)
(***************************************************************************)

\* The fleets of SpecLimiter (more wallets than permits, every call
\* answered Ok) and of SpecFleet (every answer and a panic at every call).
InitFair == InitLimiter \/ InitFleet

\* A step of the spawn loop or of a spawned pipeline.
PipelineStep ==
    \/ Spawn
    \/ \E i \in 1..Len(tasks) :
          Acquire(i) \/ FleetFetch(i) \/ FleetBlockhash(i) \/ FleetSend(i)

\* `handle.await` completes: Collect as far as it changes `awaited`, which no
\* other action changes.
CollectStep ==
    /\ main_pc = "collecting"
    /\ awaited < Len(tasks)
    /\ Ended(tasks[awaited + 1])
    /\ awaited' = awaited + 1

\* The multi-thread runtime of #[tokio::main] keeps polling ready tasks, a
\* free permit wakes a waiting acquire(), and every RPC call returns: while
\* the spawn loop or some pipeline can take a step, one is taken, and while
\* the awaited handle is complete, run_batch() goes on.
SpecFleetFair ==
    /\ InitFair
    /\ [][NextFleet]_vars
    /\ WF_vars(PipelineStep)
    /\ WF_awaited(CollectStep)

\* Every wallet's pipeline got a permit, made its call and ended, every
\* permit is back, and the summary is printed.
FleetFinished ==
    /\ main_pc = "reported"
    /\ Len(tasks) = Len(wallets)
    /\ \A i \in 1..Len(tasks) : Ended(tasks[i]) /\ tasks[i].rpc # <<>>
    /\ permits = FleetPermits

\* C30: with every RPC call returning and a fair scheduler, every pipeline
\* eventually acquires a permit and finishes and the run prints its summary,
\* also when more wallets are queued than there are permits.
C30_EveryPipelineFinishes == <>FleetFinished

\* More wallets than permits, all of them finished, the summary printed.
C30_Witness ==
    /\ FleetFinished
    /\ Len(tasks) > FleetPermits
    /\ Len(printed) = Len(tasks)

====
